---- MODULE Spec2Model ----
(***************************************************************************)
(* Model of the Smart Attendance backend (src/backend.py): the             *)
(* AttendanceSystem session state machine run_attendance_check, its blink  *)
(* detector _check_liveness_internal, enrollment add_user, the user table  *)
(* and the attendance CSV.                                                 *)
(*                                                                         *)
(* Units.  The clock (time.time()) is counted in whole seconds.  Face      *)
(* embeddings are integer vectors counted in tenths, so the tolerance 0.6  *)
(* is 6 and distances are compared through their squares.  An eye-aspect   *)
(* ratio is kept as the exact fraction num/den of integer distances.       *)
(***************************************************************************)
EXTENDS Integers, Sequences, FiniteSets, TLC

VARIABLES
    workflow_state,            \* self.workflow_state
    blink_counter,             \* self.blink_counter
    last_state_change_time,    \* self.last_state_change_time
    pending_verification_user, \* self.pending_verification_user (NoUser = None)
    scan_progress,             \* self.scan_progress
    known_users,               \* self.known_users, the in-memory profile list
    db_users,                  \* rows of the users table, in insertion order
    users_schema,              \* the columns of the users table: those of
                               \* backend.py or those of database.py
    csv_rows,                  \* rows of attendance.csv
    now,                       \* time.time()
    outcome,                   \* what the last call did: its return value or raise
    blink_trace,               \* frames fed straight to the blink detector, with
                               \* what it answered (the detector run on its own)
    running,                   \* attendance windows whose update_video loop is live
    acknowledging,             \* attendance windows showing the success dialog
    iris,                      \* the pair of iris templates compared, and the result
    ears,                      \* the two eye aspect ratios the detector computed
                               \* for the last frame fed to it on its own
    enrollment,                \* the EnrollmentApp window: name entry, countdown,
                               \* pending timer callbacks, dialog, calls of add_user
    app,                       \* the loop of app.py: blink counter, liveness latch
                               \* and what the last frame recognized
    logged                     \* the profiles passed to log_attendance, in call
                               \* order (log_attendance run on its own)

session == <<workflow_state, blink_counter, last_state_change_time,
             pending_verification_user, scan_progress>>
vars == <<workflow_state, blink_counter, last_state_change_time,
          pending_verification_user, scan_progress, known_users, db_users,
          users_schema, csv_rows, now, outcome, blink_trace, running, acknowledging, iris,
          ears, enrollment, app, logged>>
gui == <<running, acknowledging>>
probes == <<enrollment, app, logged>>

(***************************************************************************)
(* Bounds of the model.                                                    *)
(***************************************************************************)
MaxTime == 11      \* the clock stops advancing here
MaxBlink == 7      \* closed-eye frames are fed only while the counter is below
MaxUsers == 2      \* rows the users table may hold
MaxEvents == 1     \* attendance rows the CSV may hold
MaxFrames == 8     \* frames fed to the blink detector run on its own
MaxWindows == 2    \* attendance windows open at a time
CodeBits == 100    \* bits of an iris code
MaxRows == 2                 \* rows of the largest unwrapped strip encoded
MaxCols == 7                 \* columns of every unwrapped strip encoded
MaxClicks == 3               \* clicks on Capture in the enrollment window
MaxLoopFrames == 5           \* frames the loop of app.py reads
MaxLogCalls == 6             \* calls of log_attendance in a row

(***************************************************************************)
(* Program constants (AttendanceSystem.__init__ and literals of the tick). *)
(***************************************************************************)
EAR_THRESHOLD_PCT == 21          \* EAR_THRESHOLD = 0.21, in hundredths
BLINK_FRAMES_MIN == 2
BLINK_FRAMES_MAX == 6
VERIFICATION_DURATION == 5
LIVENESS_TIMEOUT == 10           \* "> 10" in CHECKING_LIVENESS
FACE_TOLERANCE_TENTHS == 6       \* "< 0.6" on the best face distance
ROTATIONS == 8                   \* compare_iris_codes(..., rotations=8)
MIN_VALID_BITS == 50             \* "valid.sum() < 50"
MATCH_THRESHOLD_PCT == 35        \* is_match(..., threshold=0.35), in hundredths
BANK_SIZE == 4               \* kernels in _gabor_bank, planes of a code
VU_EAR_THRESHOLD_PCT == 25   \* vision_utils.EAR_THRESHOLD, in hundredths
VU_BLINK_FRAMES_MIN == 2     \* vision_utils.BLINK_FRAMES_MIN
VU_BLINK_FRAMES_MAX == 5     \* vision_utils.BLINK_FRAMES_MAX

WAITING_FOR_FACE == "WAITING_FOR_FACE"
CHECKING_LIVENESS == "CHECKING_LIVENESS"
VERIFYING == "VERIFYING"
FINAL_SUCCESS == "FINAL_SUCCESS"
WorkflowStates == {WAITING_FOR_FACE, CHECKING_LIVENESS, VERIFYING, FINAL_SUCCESS}

YELLOW == <<200, 200, 0>>
RED == <<0, 0, 255>>
ORANGE == <<0, 165, 255>>
GREEN == <<0, 255, 0>>

(***************************************************************************)
(* Values.                                                                 *)
(***************************************************************************)
Names == {"ann"}
UserIds == 1..2                          \* values uuid.uuid4() may return
EnrolledEmbeddings == {<<0, 0>>, <<6, 0>>}
LiveEmbeddings == {<<0, 0>>, <<3, 0>>, <<6, 0>>, <<0, 6>>, <<6, 8>>}

NoUser == [user_id |-> 0, name |-> "", embedding |-> <<>>]   \* None

Min(a, b) == IF a <= b THEN a ELSE b

\* An eye is the six landmark points p0..p5 of face_recognition, here 1..6.
Pt(x, y) == <<x, y>>
OpenEye == <<Pt(0, 0), Pt(3, 2), Pt(7, 2), Pt(10, 0), Pt(7, -2), Pt(3, -2)>>
ClosedEye == <<Pt(0, 0), Pt(3, 1), Pt(7, 1), Pt(10, 0), Pt(7, -1), Pt(3, -1)>>
EdgeEye == <<Pt(0, 0), Pt(15, 5), Pt(35, 6), Pt(50, 0), Pt(35, -5), Pt(15, -5)>>
FlatEye == <<Pt(5, 0), Pt(5, 3), Pt(5, 3), Pt(5, 0), Pt(5, -1), Pt(5, -1)>>
Eyes == {OpenEye, ClosedEye, EdgeEye, FlatEye}

\* Square root, exact on the eyes above: all their point distances are integers.
RECURSIVE SqrtFrom(_, _)
SqrtFrom(n, r) == IF (r + 1) * (r + 1) > n THEN r ELSE SqrtFrom(n, r + 1)
ISqrt(n) == SqrtFrom(n, 0)
Euclidean(p, q) ==
    ISqrt((p[1] - q[1]) * (p[1] - q[1]) + (p[2] - q[2]) * (p[2] - q[2]))

\* _compute_ear: (A + B) / (2.0 * C) as the fraction num/den, 0.0 when C = 0.
ComputeEar(eye) ==
    LET A == Euclidean(eye[2], eye[6])
        B == Euclidean(eye[3], eye[5])
        C == Euclidean(eye[1], eye[4])
    IN  IF C = 0 THEN [num |-> 0, den |-> 1]
        ELSE [num |-> A + B, den |-> 2 * C]

\* _compute_ear over the eyes of the model, computed once.
EyeAspectRatio == [eye \in Eyes |-> ComputeEar(eye)]

\* Mutant of AverageEarBelowThreshold: one eye below the threshold is enough.
EitherEarBelowThreshold(l, r) ==
    \/ 100 * l.num < EAR_THRESHOLD_PCT * l.den
    \/ 100 * r.num < EAR_THRESHOLD_PCT * r.den

\* (ear_left + ear_right) / 2.0 < EAR_THRESHOLD, on the exact fractions.
AverageEarBelowThreshold(l, r) ==
    100 * (l.num * r.den + r.num * l.den) < 2 * EAR_THRESHOLD_PCT * l.den * r.den


(***************************************************************************)
(* Inputs of a tick: the frame's landmark list (face_landmarks), what      *)
(* face_locations finds in it, and the embedding face_encodings returns.   *)
(* A landmark dict is a record whose fields are the keys it has.           *)
(***************************************************************************)
BothEyes(l, r) == [left_eye |-> l, right_eye |-> r]
FaceLandmarks ==
    {BothEyes(OpenEye, OpenEye), BothEyes(ClosedEye, ClosedEye),
     BothEyes(EdgeEye, EdgeEye), BothEyes(FlatEye, FlatEye),
     BothEyes(OpenEye, ClosedEye), BothEyes(ClosedEye, EdgeEye),
     [left_eye |-> ClosedEye], [chin |-> <<>>]}
LandmarkLists ==
    {<<>>} \cup {<<f>> : f \in FaceLandmarks}
           \cup {<<BothEyes(ClosedEye, ClosedEye), BothEyes(OpenEye, OpenEye)>>}
\* The frames fed to a tick: every landmark list with a locatable face, every
\* live embedding with an open-eyed face, and frames where nothing is located.
Frame(landmarks, locations, embedding) ==
    [landmarks |-> landmarks, locations |-> locations, embedding |-> embedding]
Frames ==
    {Frame(l, 1, <<0, 0>>) : l \in LandmarkLists}
        \cup {Frame(<<BothEyes(OpenEye, OpenEye)>>, 1, e) : e \in LiveEmbeddings}
        \cup {Frame(l, 0, <<0, 0>>) : l \in {<<>>, <<BothEyes(OpenEye, OpenEye)>>}}

Status(text, name, color, progress) ==
    [text |-> text, name |-> name, color |-> color, progress |-> progress]
NoStatus == Status("", "", <<0, 0, 0>>, 0)

Session(st, bc, ts, pu, sp) ==
    [workflow_state |-> st, blink_counter |-> bc, last_state_change_time |-> ts,
     pending_verification_user |-> pu, scan_progress |-> sp]

\* Mutant of ResetWorkflow: the pending profile is kept.
ResetWorkflowKeepsPending(t) ==
    Session(WAITING_FOR_FACE, 0, t, pending_verification_user, 0)

\* reset_workflow at time t.
ResetWorkflow(t) == Session(WAITING_FOR_FACE, 0, t, NoUser, 0)

\* has_enrolled_users
HasEnrolledUsers(users) == Len(users) > 0

(***************************************************************************)
(* _check_liveness_internal: the blink detector.  Returns the signal and   *)
(* the blink counter it leaves.                                            *)
(***************************************************************************)
\* Mutant of BlinkInBand: the upper end of the band left out.
BlinkInBandNarrow(bc) == BLINK_FRAMES_MIN <= bc /\ bc < BLINK_FRAMES_MAX

BlinkInBand(bc) == BLINK_FRAMES_MIN <= bc /\ bc <= BLINK_FRAMES_MAX

\* Mutant of CheckLivenessInternal: a confirmed blink leaves the counter as it is.
CheckLivenessInternalKeepsCount(face_landmarks_list, bc) ==
    IF Len(face_landmarks_list) = 0 THEN [live |-> FALSE, blink_counter |-> bc]
    ELSE LET landmarks == face_landmarks_list[1] IN
         IF "left_eye" \notin DOMAIN landmarks \/ "right_eye" \notin DOMAIN landmarks
         THEN [live |-> FALSE, blink_counter |-> bc]
         ELSE IF AverageEarBelowThreshold(EyeAspectRatio[landmarks.left_eye],
                                          EyeAspectRatio[landmarks.right_eye])
              THEN [live |-> FALSE, blink_counter |-> bc + 1]
              ELSE IF BlinkInBand(bc)
                   THEN [live |-> TRUE, blink_counter |-> bc]
                   ELSE [live |-> FALSE, blink_counter |-> 0]

CheckLivenessInternal(face_landmarks_list, bc) ==
    IF Len(face_landmarks_list) = 0 THEN [live |-> FALSE, blink_counter |-> bc]
    ELSE LET landmarks == face_landmarks_list[1] IN
         IF "left_eye" \notin DOMAIN landmarks \/ "right_eye" \notin DOMAIN landmarks
         THEN [live |-> FALSE, blink_counter |-> bc]
         ELSE IF AverageEarBelowThreshold(EyeAspectRatio[landmarks.left_eye],
                                          EyeAspectRatio[landmarks.right_eye])
              THEN [live |-> FALSE, blink_counter |-> bc + 1]
              ELSE IF BlinkInBand(bc)
                   THEN [live |-> TRUE, blink_counter |-> 0]
                   ELSE [live |-> FALSE, blink_counter |-> 0]

(***************************************************************************)
(* log_attendance on the CSV rows: header first when the file is empty or  *)
(* starts with something else, then the data row with its serial number.   *)
(* The timestamp column is left out of the rows.                           *)
(***************************************************************************)
\* The header row ['Sr No', 'User ID', 'Username', 'Status', 'Timestamp'].
HeaderRow == [sr |-> 0, user_id |-> 0, name |-> "Username", status |-> "Status"]
DataRow(sr, user) ==
    [sr |-> sr, user_id |-> user.user_id, name |-> user.name, status |-> "Present"]

\* Mutant of LogAttendance: the serial number is the count of all rows, header
\* included.
LogAttendanceCountsHeader(rows, user) ==
    IF Len(rows) > 0
    THEN IF rows[1] = HeaderRow
         THEN Append(rows, DataRow(Len(rows) + 1, user))
         ELSE Append(Append(rows, HeaderRow), DataRow(1, user))
    ELSE Append(Append(rows, HeaderRow), DataRow(1, user))

LogAttendance(rows, user) ==
    IF Len(rows) > 0
    THEN IF rows[1] = HeaderRow
         THEN Append(rows, DataRow(Len(rows), user))
         ELSE Append(Append(rows, HeaderRow), DataRow(1, user))
    ELSE Append(Append(rows, HeaderRow), DataRow(1, user))

(***************************************************************************)
(* Identity match of the WAITING_FOR_FACE branch: face_distance, argmin    *)
(* (first index of the minimum) and the tolerance test.                    *)
(***************************************************************************)
FaceDistanceSq(a, b) ==
    (a[1] - b[1]) * (a[1] - b[1]) + (a[2] - b[2]) * (a[2] - b[2])

ArgMin(users, live) ==
    CHOOSE i \in 1..Len(users) :
        /\ \A j \in 1..Len(users) :
              FaceDistanceSq(users[i].embedding, live)
                  <= FaceDistanceSq(users[j].embedding, live)
        /\ \A j \in 1..(i - 1) :
              FaceDistanceSq(users[j].embedding, live)
                  > FaceDistanceSq(users[i].embedding, live)

\* Mutant of WithinTolerance: a distance of exactly 0.6 accepted.
WithinToleranceInclusive(dsq) ==
    dsq <= FACE_TOLERANCE_TENTHS * FACE_TOLERANCE_TENTHS

WithinTolerance(dsq) == dsq < FACE_TOLERANCE_TENTHS * FACE_TOLERANCE_TENTHS

(***************************************************************************)
(* run_attendance_check, one branch per workflow state.  Each takes the    *)
(* session s as the tick found it with scan_progress already set to 0,     *)
(* and returns the session it leaves, what the call returns (or that it    *)
(* raised), the CSV and what happened to the attendance sink.              *)
(***************************************************************************)
TickResult(s, raised, status, rows, sink) ==
    [s |-> s, raised |-> raised, status |-> status, csv |-> rows, sink |-> sink]

Raised(s, rows, sink) == TickResult(s, TRUE, NoStatus, rows, sink)

\* Mutant of NoFace: a frame without a face is counted in the blink counter.
NoFaceCounted(s, rows) ==
    TickResult([s EXCEPT !.blink_counter = s.blink_counter + 1], FALSE,
               Status("Please Look at the Camera", "", YELLOW, s.scan_progress),
               rows, "none")

LookStatus(s) == Status("Please Look at the Camera", "", YELLOW, s.scan_progress)

\* The returns of the WAITING_FOR_FACE branch on which no face was seen.
NoFace(s, rows) == TickResult(s, FALSE, LookStatus(s), rows, "none")

TickWaitingForFace(s, users, frame, t, rows) ==
    LET look == LookStatus(s) IN
    IF Len(frame.landmarks) > 0 /\ Len(users) > 0
    THEN IF frame.locations = 0
         THEN NoFace(s, rows)
         ELSE LET best_match_index == ArgMin(users, frame.embedding)
                  best == FaceDistanceSq(users[best_match_index].embedding,
                                         frame.embedding)
              IN  IF WithinTolerance(best)
                  THEN TickResult(
                           [s EXCEPT !.pending_verification_user =
                                         users[best_match_index],
                                     !.workflow_state = CHECKING_LIVENESS,
                                     !.blink_counter = 0,
                                     !.last_state_change_time = t],
                           FALSE, look, rows, "none")
                  ELSE TickResult(s, FALSE,
                           Status("User not recognized. Please enroll first.", "",
                                  RED, s.scan_progress),
                           rows, "none")
    ELSE NoFace(s, rows)

\* Mutant of TimedOut: the timeout one second late.
TimedOutLate(s, t) == t - s.last_state_change_time > LIVENESS_TIMEOUT + 1

TimedOut(s, t) == t - s.last_state_change_time > LIVENESS_TIMEOUT

TickCheckingLiveness(s, frame, t, rows, sink_ok) ==
    IF s.pending_verification_user = NoUser
    THEN Raised(s, rows, "none")          \* None['name']
    ELSE
    LET welcome == Status("Welcome {name}! Please Blink.",
                          s.pending_verification_user.name, ORANGE, 0)
        lv == CheckLivenessInternal(frame.landmarks, s.blink_counter)
        s1 == [s EXCEPT !.blink_counter = lv.blink_counter]
    IN  IF lv.live
        THEN IF sink_ok
             THEN TickResult([s1 EXCEPT !.workflow_state = VERIFYING,
                                        !.last_state_change_time = t],
                             FALSE, [welcome EXCEPT !.progress = s1.scan_progress],
                             LogAttendance(rows, s.pending_verification_user), "ok")
             ELSE Raised(s1, rows, "failed")   \* log_attendance raised
        ELSE IF TimedOut(s1, t)
             THEN TickResult(ResetWorkflow(t), FALSE, welcome, rows, "none")
             ELSE TickResult(s1, FALSE,
                             [welcome EXCEPT !.progress = s1.scan_progress],
                             rows, "none")

Progress(elapsed_time) ==
    Min((elapsed_time * 100) \div VERIFICATION_DURATION, 100)

\* Mutant of DwellOver: the dwell ends at exactly the verification duration.
DwellOverInclusive(elapsed_time) == elapsed_time >= VERIFICATION_DURATION

DwellOver(elapsed_time) == elapsed_time > VERIFICATION_DURATION

\* Mutant of TickVerifying: the pending profile is dropped when the dwell ends.
TickVerifyingForgets(s, t, rows) ==
    LET elapsed_time == t - s.last_state_change_time
        s1 == [s EXCEPT !.scan_progress = Progress(elapsed_time)]
        s2 == IF DwellOver(elapsed_time)
              THEN [s1 EXCEPT !.workflow_state = FINAL_SUCCESS,
                              !.pending_verification_user = NoUser]
              ELSE s1
    IN  TickResult(s2, FALSE, Status("Verifying...", "", GREEN, s2.scan_progress),
                   rows, "none")

TickVerifying(s, t, rows) ==
    LET elapsed_time == t - s.last_state_change_time
        s1 == [s EXCEPT !.scan_progress = Progress(elapsed_time)]
        s2 == IF DwellOver(elapsed_time)
              THEN [s1 EXCEPT !.workflow_state = FINAL_SUCCESS] ELSE s1
    IN  TickResult(s2, FALSE, Status("Verifying...", "", GREEN, s2.scan_progress),
                   rows, "none")

\* Mutant of TickFinalSuccess: the terminal state restarts the workflow itself.
TickFinalSuccessRestarts(s, rows) ==
    TickResult(ResetWorkflow(s.last_state_change_time), FALSE,
               Status("Attendance Marked for {name}",
                      s.pending_verification_user.name, GREEN, 100),
               rows, "none")

TickFinalSuccess(s, rows) ==
    IF s.pending_verification_user = NoUser
    THEN Raised(s, rows, "none")          \* None['name']
    ELSE TickResult([s EXCEPT !.scan_progress = 100], FALSE,
                    Status("Attendance Marked for {name}",
                           s.pending_verification_user.name, GREEN, 100),
                    rows, "none")

RunAttendanceCheck(s0, users, frame, t, rows, sink_ok) ==
    LET s == [s0 EXCEPT !.scan_progress = 0] IN
    IF ~HasEnrolledUsers(users)
    THEN TickResult(s, FALSE,
             Status("No users enrolled. Please enroll users first.", "", RED,
                    s.scan_progress),
             rows, "none")
    ELSE IF s.workflow_state = WAITING_FOR_FACE
         THEN TickWaitingForFace(s, users, frame, t, rows)
    ELSE IF s.workflow_state = CHECKING_LIVENESS
         THEN TickCheckingLiveness(s, frame, t, rows, sink_ok)
    ELSE IF s.workflow_state = VERIFYING
         THEN TickVerifying(s, t, rows)
    ELSE IF s.workflow_state = FINAL_SUCCESS
         THEN TickFinalSuccess(s, rows)
    ELSE TickResult(s, FALSE, Status("Initializing...", "", YELLOW, s.scan_progress),
                    rows, "none")

(***************************************************************************)
(* Enrollment: add_user and load_known_users on the users table.           *)
(***************************************************************************)
UserRow(user_id, name, embedding) ==
    [user_id |-> user_id, name |-> name, embedding |-> embedding]

\* Mutant of LoadKnownUsers: a failure at a row discards the rows read before
\* it.
LoadKnownUsersAllOrNothing(db, failing_row) ==
    IF failing_row > Len(db) THEN db ELSE <<>>

\* load_known_users: the rows are appended in table order inside one try
\* block, and whatever raises ends the loop with the rows appended so far.
\* failing_row is 0 when connect or the query raises, i when decoding the
\* embedding text of row i raises, and beyond the table when nothing raises:
\* the result is the empty list, the rows before row i, or the whole table.
LoadKnownUsers(db, failing_row) ==
    IF failing_row > Len(db) THEN db ELSE SubSeq(db, 1, failing_row - 1)

\* The values of failing_row that are tried: the query (0, nothing is read),
\* the second row (a first row is read and the rest is not) and no failure
\* (MaxUsers + 1).
FailingRows == {0, 2, MaxUsers + 1}

\* Mutant of InsertSucceeds: a storage error goes unnoticed.
InsertSucceedsAlways(db, user_id, save_ok) ==
    \A i \in 1..Len(db) : db[i].user_id # user_id

\* The INSERT: fails on a storage error and on the UNIQUE user_id constraint.
InsertSucceeds(db, user_id, save_ok) ==
    save_ok /\ \A i \in 1..Len(db) : db[i].user_id # user_id

\* Mutant of MultipleFaces: two faces pass.
MultipleFacesFromThree(n_faces) == n_faces > 2

\* len(face_locations) > 1
MultipleFaces(n_faces) == n_faces > 1

\* Mutant of InsertRow: a row with the name of a stored profile replaces it.
InsertOrReplaceRow(db, row) ==
    IF \E i \in 1..Len(db) : db[i].name = row.name
    THEN [i \in 1..Len(db) |-> IF db[i].name = row.name THEN row ELSE db[i]]
    ELSE Append(db, row)

\* INSERT INTO users (user_id, name, embedding) VALUES (?, ?, ?)
InsertRow(db, row) == Append(db, row)

AddUserResult(users, db, success, text) ==
    [known_users |-> users, db |-> db, success |-> success, text |-> text]

\* Mutant of AddUser: the profile set is not reloaded after the insert.
AddUserWithoutReload(users, db, name, n_faces, embedding, user_id, save_ok, failing_row) ==
    IF n_faces = 0
    THEN AddUserResult(users, db, FALSE, "No face detected.")
    ELSE IF MultipleFaces(n_faces)
    THEN AddUserResult(users, db, FALSE, "Multiple faces detected.")
    ELSE IF ~InsertSucceeds(db, user_id, save_ok)
    THEN AddUserResult(users, db, FALSE, "Enrollment failed: {e}")
    ELSE AddUserResult(users, InsertRow(db, UserRow(user_id, name, embedding)),
                       TRUE,
                       "User '{name}' enrolled successfully with ID: {user_id}")

AddUser(users, db, name, n_faces, embedding, user_id, save_ok, failing_row) ==
    IF n_faces = 0
    THEN AddUserResult(users, db, FALSE, "No face detected.")
    ELSE IF MultipleFaces(n_faces)
    THEN AddUserResult(users, db, FALSE, "Multiple faces detected.")
    ELSE IF ~InsertSucceeds(db, user_id, save_ok)
    THEN AddUserResult(users, db, FALSE, "Enrollment failed: {e}")
    ELSE LET db1 == InsertRow(db, UserRow(user_id, name, embedding)) IN
         AddUserResult(LoadKnownUsers(db1, failing_row), db1, TRUE,
                       "User '{name}' enrolled successfully with ID: {user_id}")

(***************************************************************************)
(* The iris matcher (src/iris_engine.py): compare_iris_codes and is_match. *)
(* A template is a code and a mask, two bit sequences of the same length.  *)
(* A Hamming distance is kept as the exact fraction num/den: disagreeing   *)
(* bits over jointly valid bits; 1.0 is 1/1.                               *)
(***************************************************************************)
IrisTemplate(code, mask) == [code |-> code, mask |-> mask]

\* Mutant of Roll: element i moves to position i - s.
RollBackward(a, s) == [i \in 1..Len(a) |-> a[((i - 1 + s) % Len(a)) + 1]]

\* np.roll(a, s) on a flat array: element i moves to position i + s, circularly.
Roll(a, s) == [i \in 1..Len(a) |-> a[((i - 1 - s) % Len(a)) + 1]]

\* (mask1 & m2s).sum()
ValidCount(mask1, m2s) ==
    Cardinality({i \in 1..Len(mask1) : mask1[i] /\ m2s[i]})

\* Mutant of EnoughBits: exactly 50 jointly valid bits are not enough.
EnoughBitsStrict(valid_sum) == valid_sum > MIN_VALID_BITS

\* not (valid.sum() < 50)
EnoughBits(valid_sum) == ~(valid_sum < MIN_VALID_BITS)

\* np.logical_xor(code1[valid], c2s[valid]).mean()
HammingAt(t1, t2, s) ==
    LET c2s == IF s = 0 THEN t2.code ELSE Roll(t2.code, s)
        m2s == IF s = 0 THEN t2.mask ELSE Roll(t2.mask, s)
        valid == {i \in 1..Len(t1.mask) : t1.mask[i] /\ m2s[i]}
    IN  [num |-> Cardinality({i \in valid : t1.code[i] # c2s[i]}),
         den |-> Cardinality(valid)]

\* Mutant of HdLess: a shift that ties with the best one replaces it.
HdLessOrEqual(hd, best_hd) == hd.num * best_hd.den <= best_hd.num * hd.den

\* hd < best_hd
HdLess(hd, best_hd) == hd.num * best_hd.den < best_hd.num * hd.den

One == [num |-> 1, den |-> 1]                  \* the distance 1.0
IrisResult(hd, shift) == [hd |-> hd, shift |-> shift]

\* The loop "for s in range(-rotations, rotations + 1)" from shift s on.
RECURSIVE ShiftLoop(_, _, _, _)
ShiftLoop(t1, t2, s, best) ==
    IF s > ROTATIONS THEN best
    ELSE LET hd == HammingAt(t1, t2, s) IN
         IF ~EnoughBits(hd.den) THEN ShiftLoop(t1, t2, s + 1, best)
         ELSE IF HdLess(hd, best.hd)
              THEN ShiftLoop(t1, t2, s + 1, IrisResult(hd, s))
              ELSE ShiftLoop(t1, t2, s + 1, best)

\* Mutant of CompareIrisCodes: the loop starts one shift late.
CompareIrisCodesLateStart(t1, t2) ==
    IF ValidCount(t1.mask, t2.mask) = 0
    THEN IrisResult(One, 0)
    ELSE ShiftLoop(t1, t2, 1 - ROTATIONS, IrisResult(One, 0))

CompareIrisCodes(t1, t2) ==
    IF ValidCount(t1.mask, t2.mask) = 0
    THEN IrisResult(One, 0)                    \* nothing to compare
    ELSE ShiftLoop(t1, t2, -ROTATIONS, IrisResult(One, 0))

\* assert code1.shape == code2.shape and mask1.shape == mask2.shape
ShapesAgree(t1, t2) ==
    Len(t1.code) = Len(t2.code) /\ Len(t1.mask) = Len(t2.mask)

\* What a call of compare_iris_codes does: it raises AssertionError when the
\* assert fails; with codes and masks of one length it returns the result of
\* the loop; with a mask longer or shorter than its code it returns (1.0, 0)
\* as long as no shift has 50 jointly valid bits, and raises IndexError at
\* code1[valid] on the first shift that has.
CompareCall(t1, t2) ==
    IF ~ShapesAgree(t1, t2)
    THEN [error |-> "AssertionError", result |-> IrisResult(One, 0)]
    ELSE IF Len(t1.code) = Len(t1.mask)
    THEN [error |-> "", result |-> CompareIrisCodes(t1, t2)]
    ELSE IF ValidCount(t1.mask, t2.mask) = 0
    THEN [error |-> "", result |-> IrisResult(One, 0)]
    ELSE IF \E s \in (0 - ROTATIONS)..ROTATIONS :
                EnoughBits(ValidCount(t1.mask, IF s = 0 THEN t2.mask
                                               ELSE Roll(t2.mask, s)))
    THEN [error |-> "IndexError", result |-> IrisResult(One, 0)]
    ELSE [error |-> "", result |-> IrisResult(One, 0)]

\* Mutant of CreateIrisCode: the mask is flattened without being repeated for
\* the planes of the code.
CreateIrisCodeFlatMask(feats, mask2d) ==
    LET H == Len(mask2d)
        W == Len(mask2d[1])
    IN  IrisTemplate(
          [n \in 1..(H * W * Len(feats)) |->
             feats[((n - 1) % Len(feats)) + 1]
                  [((n - 1) \div (Len(feats) * W)) + 1]
                  [(((n - 1) \div Len(feats)) % W) + 1]],
          [n \in 1..(H * W) |-> mask2d[((n - 1) \div W) + 1][((n - 1) % W) + 1]])

\* create_iris_code after the filter bank: feats are the K sign planes of the
\* responses (H x W each), mask2d the H x W validity mask.  np.stack(feats,
\* axis=-1) and np.repeat(mask2d[:, :, None], K, axis=2) are flattened in row
\* major order, plane index fastest: element (r, c, k) lands at
\* (r * W + c) * K + k.
CreateIrisCode(feats, mask2d) ==
    LET H == Len(mask2d)
        W == Len(mask2d[1])
        K == Len(feats)
    IN  IrisTemplate(
          [n \in 1..(H * W * K) |->
             feats[((n - 1) % K) + 1]
                  [((n - 1) \div (K * W)) + 1]
                  [(((n - 1) \div K) % W) + 1]],
          [n \in 1..(H * W * K) |->
             mask2d[((n - 1) \div (K * W)) + 1][(((n - 1) \div K) % W) + 1]])

\* create_iris_code(image_path): FileNotFoundError when imread returns None,
\* the template of the image otherwise.
CreateIrisCodeOfImage(src) ==
    IF src.img_is_none
    THEN [error |-> "FileNotFoundError", template |-> <<>>]
    ELSE [error |-> "", template |-> CreateIrisCode(src.feats, src.mask2d)]

\* Mutant of IsMatch: a distance equal to the threshold is refused.
IsMatchBelow(hamming_distance, threshold_pct) ==
    100 * hamming_distance.num < threshold_pct * hamming_distance.den

\* is_match: hamming_distance <= threshold, the threshold in hundredths.
IsMatch(hamming_distance, threshold_pct) ==
    100 * hamming_distance.num <= threshold_pct * hamming_distance.den

\* The templates compared.  Codes: a uniform one, its complement, one step, a
\* period-2 pattern and a block of 21 set bits.  Masks: all valid, none valid,
\* the first 49, 50 or 60 positions valid, every second position valid, and
\* the odd positions with position 2.
Bits == 1..CodeBits
ZerosCode == [i \in Bits |-> FALSE]
OnesCode == [i \in Bits |-> TRUE]
StepCode == [i \in Bits |-> i <= 30]
AlternatingCode == [i \in Bits |-> i % 2 = 0]
BlockCode == [i \in Bits |-> 20 <= i /\ i <= 40]
Codes == {ZerosCode, OnesCode, StepCode, AlternatingCode, BlockCode}

AllValid == [i \in Bits |-> TRUE]
AllInvalid == [i \in Bits |-> FALSE]
FirstValid(k) == [i \in Bits |-> i <= k]
EvenValid == [i \in Bits |-> i % 2 = 0]
OddValid == [i \in Bits |-> i % 2 = 1]
OddAndSecondValid == [i \in Bits |-> i % 2 = 1 \/ i = 2]
Masks == {AllValid, AllInvalid, FirstValid(49), FirstValid(50), FirstValid(60),
          EvenValid, OddValid, OddAndSecondValid}

Templates == {IrisTemplate(c, m) : c \in Codes, m \in Masks}

\* A copy of t with code and mask both moved d positions round the circle.
ShiftedCopy(t, d) ==
    IrisTemplate([i \in Bits |-> t.code[((i - 1 - d) % CodeBits) + 1]],
                 [i \in Bits |-> t.mask[((i - 1 - d) % CodeBits) + 1]])

Shifts == (0 - ROTATIONS)..ROTATIONS
Thresholds == {0, MATCH_THRESHOLD_PCT, 100}

Comparison(t1, t2, done, result, decided, match) ==
    [src |-> <<>>, built |-> 2, encoded |-> TRUE, t1 |-> t1, t2 |-> t2,
     done |-> done,
     error |-> "", result |-> result, decided |-> decided,
     threshold |-> match[1], match |-> match[2]]
NoComparison ==
    Comparison(<<>>, <<>>, FALSE, IrisResult(One, 0), FALSE, <<0, FALSE>>)

\* Every template against every template, and against each shifted copy of
\* itself.
IrisInputs ==
    {Comparison(t1, t2, FALSE, IrisResult(One, 0), FALSE, <<0, FALSE>>) :
         t1 \in Templates, t2 \in Templates}
      \cup {Comparison(t, ShiftedCopy(t, d), FALSE, IrisResult(One, 0), FALSE,
                       <<0, FALSE>>) : t \in Templates, d \in Shifts}

\* What the encoder is given: an image that cv2.imread could read, with the
\* sign planes of the four filter responses and the validity mask of its
\* unwrapped strip of rows x cols pixels, or a path for which imread returns
\* None.
UnwrapSizes == {<<1, MaxCols>>, <<MaxRows, MaxCols>>}
Plane(pattern, size) ==
    [r \in 1..size[1] |-> [c \in 1..size[2] |->
        CASE pattern = "set" -> TRUE
          [] pattern = "clear" -> FALSE
          [] pattern = "checker" -> (r + c) % 2 = 0
          [] OTHER -> c <= 2]]
PlaneChoices == {<<"set", "clear", "checker", "left">>,
                 <<"clear", "clear", "clear", "clear">>,
                 <<"checker", "left", "set", "clear">>}
MaskChoices == {"set", "checker", "left"}
EncoderSource(size, planes, mask) ==
    [img_is_none |-> FALSE,
     feats |-> [k \in 1..BANK_SIZE |-> Plane(planes[k], size)],
     mask2d |-> Plane(mask, size)]
UnreadableImage == [img_is_none |-> TRUE, feats |-> <<>>, mask2d |-> <<>>]
EncoderSources ==
    {EncoderSource(size, planes, mask) :
         size \in UnwrapSizes, planes \in PlaneChoices, mask \in MaskChoices}
EncodeInputs ==
    {[Comparison(<<>>, <<>>, FALSE, IrisResult(One, 0), FALSE, <<0, FALSE>>)
         EXCEPT !.src = <<s1, s2>>, !.built = 0, !.encoded = FALSE] :
         s1 \in EncoderSources \cup {UnreadableImage},
         s2 \in EncoderSources \cup {UnreadableImage}}

(***************************************************************************)
(* The state machine.                                                      *)
(***************************************************************************)
Outcome(op, raised, status, sink, success) ==
    [op |-> op, raised |-> raised, status |-> status, sink |-> sink,
     success |-> success]

CurrentSession ==
    Session(workflow_state, blink_counter, last_state_change_time,
            pending_verification_user, scan_progress)

SetSession(s) ==
    /\ workflow_state' = s.workflow_state
    /\ blink_counter' = s.blink_counter
    /\ last_state_change_time' = s.last_state_change_time
    /\ pending_verification_user' = s.pending_verification_user
    /\ scan_progress' = s.scan_progress

\* The users table is made by whichever of backend.py and database.py runs
\* first, both with CREATE TABLE IF NOT EXISTS: the table of backend.py has
\* the columns id, user_id, name, embedding, that of database.py has id, name,
\* embedding.
BACKEND_SCHEMA == "id, user_id, name, embedding"
DATABASE_SCHEMA == "id, name, embedding"

\* A row of the table of database.py.
DatabaseRow(id, name, embedding) ==
    [id |-> id, name |-> name, embedding |-> embedding]

\* The INSERT of backend.add_user names the column user_id: it is accepted
\* only by the table of backend.py, and there when the storage takes it.
InsertAccepted(save_ok) == save_ok /\ users_schema = BACKEND_SCHEMA

InitialTables ==
    {<<>>, <<UserRow(1, "ann", <<0, 0>>)>>}

\* EnrollmentApp.__init__: an empty name entry, no countdown running, no timer
\* callback of _do_countdown pending, no message box.
EnrollmentWindow ==
    [name_entry |-> "", countdown |-> 3, countdown_running |-> FALSE,
     timers |-> 0, dialog |-> "none", clicks |-> 0, accepted |-> 0,
     calls |-> <<>>]

\* app.py before its loop: counter 0, latch down, nothing recognized, the
\* loop not left.
AppStart ==
    [blink_counter |-> 0, liveness_verified |-> FALSE,
     liveness_status_text |-> "Please Blink to Verify", names |-> <<>>,
     since_blink |-> 0, frames |-> 0, exit |-> "running"]

\* The rest of the state after construction: the workflow reset, nothing
\* recorded, no window open.
InitWorkflow ==
    /\ workflow_state = WAITING_FOR_FACE
    /\ blink_counter = 0
    /\ last_state_change_time = 0
    /\ pending_verification_user = NoUser
    /\ scan_progress = 0
    /\ csv_rows = <<>>
    /\ outcome = Outcome("init", FALSE, NoStatus, "none", TRUE)
    /\ blink_trace = <<>>
    /\ ears = <<>>
    /\ enrollment = EnrollmentWindow
    /\ app = AppStart
    /\ logged = <<>>
    /\ running = 0
    /\ acknowledging = 0

\* AttendanceSystem.__init__: the table exists, the profiles are loaded and the
\* workflow is reset.
InitBackend ==
    /\ now = 0
    /\ users_schema = BACKEND_SCHEMA
    /\ db_users \in InitialTables
    /\ \E failing_row \in FailingRows :
           known_users = LoadKnownUsers(db_users, failing_row)
    /\ InitWorkflow

\* AttendanceSystem.__init__ on a users table that database.create_table made
\* and nothing was written to: _setup_database leaves it as it is, the SELECT
\* of load_known_users fails for want of the column user_id, and the profile
\* set is empty.
InitBackendOnDatabaseTable ==
    /\ now = 0
    /\ users_schema = DATABASE_SCHEMA
    /\ db_users = <<>>
    /\ known_users = LoadKnownUsers(db_users, 0)
    /\ InitWorkflow
    /\ iris = NoComparison

Init == InitBackend /\ iris = NoComparison

\* One call of run_attendance_check(frame, face_landmarks_list).
Tick(frame, sink_ok) ==
    LET r == RunAttendanceCheck(CurrentSession, known_users, frame, now,
                                csv_rows, sink_ok)
    IN  /\ r.s.blink_counter <= MaxBlink
        /\ Len(r.csv) <= MaxEvents + 1
        /\ SetSession(r.s)
        /\ csv_rows' = r.csv
        /\ outcome' = Outcome("tick", r.raised, r.status, r.sink, ~r.raised)
        /\ UNCHANGED <<known_users, db_users, users_schema, now, blink_trace, ears, probes, gui, iris>>

\* One call of reset_workflow().
Reset ==
    /\ SetSession(ResetWorkflow(now))
    /\ outcome' = Outcome("reset_workflow", FALSE, NoStatus, "none", TRUE)
    /\ UNCHANGED <<known_users, db_users, users_schema, csv_rows, now, blink_trace, ears, probes, gui, iris>>

\* One call of add_user(name, frame).
Enroll(name, n_faces, embedding, user_id, save_ok, failing_row) ==
    LET r == AddUser(known_users, db_users, name, n_faces, embedding, user_id,
                     InsertAccepted(save_ok), failing_row)
    IN  /\ Len(r.db) <= MaxUsers
        /\ user_id <= Len(db_users) + 1    \* a fresh identifier, or one in use
        /\ known_users' = r.known_users
        /\ db_users' = r.db
        /\ outcome' = Outcome("add_user", FALSE,
                              IF r.success THEN NoStatus
                              ELSE Status(r.text, "", <<0, 0, 0>>, 0),
                              "none", r.success)
        /\ UNCHANGED <<session, users_schema, csv_rows, now, blink_trace, ears,
                       probes, gui, iris>>

\* The wall clock moves on between calls.
AdvanceClock ==
    /\ now < MaxTime
    /\ now' = now + 1
    /\ UNCHANGED <<session, known_users, db_users, users_schema, csv_rows, outcome, blink_trace, ears, probes,
                   gui, iris>>

\* The calls of add_user that are tried in the middle of sessions: one face
\* with every name, the first identifier with the first embedding and the
\* second identifier with either, each with the insert failing, the reload
\* failing at its query and nothing failing; and the frames with no face or
\* two faces.
EnrollProfiles ==
    {p \in UserIds \X EnrolledEmbeddings : p[1] = 2 \/ p[2] = <<0, 0>>}
EnrollInputs ==
    {<<name, 1, p[2], p[1], ok[1], ok[2]>> :
         name \in Names, p \in EnrollProfiles,
         ok \in {<<TRUE, MaxUsers + 1>>, <<TRUE, 0>>, <<FALSE, MaxUsers + 1>>}}
        \cup {<<"ann", n, <<0, 0>>, 1, TRUE, MaxUsers + 1>> : n \in {0, 2}}

\* The calls tried from the enrollment window and before app.py: those, and a
\* second profile whose reload fails at the second row, which leaves the first
\* row alone in the profile set.
WindowEnrollInputs ==
    EnrollInputs \cup {<<name, 1, <<6, 0>>, 2, TRUE, 2>> : name \in Names}

Next ==
    \/ \E frame \in Frames, sink_ok \in BOOLEAN : Tick(frame, sink_ok)
    \/ Reset
    \/ \E e \in EnrollInputs : Enroll(e[1], e[2], e[3], e[4], e[5], e[6])
    \/ AdvanceClock

Spec == Init /\ [][Next]_vars

(***************************************************************************)
(* The blink detector run on its own: frames are fed one after the other   *)
(* to _check_liveness_internal, starting from counter 0, and every         *)
(* answer is kept.                                                         *)
(***************************************************************************)
\* What a landmark list shows, as the frames were built: no usable face (no face
\* at all, or a first face without both eyes), eyes closed (the average ratio of
\* the first face is 0.2, 0.205 or 0), or eyes open (0.4, 0.3 or exactly 0.21).
AbsentLists == {<<>>, <<[left_eye |-> ClosedEye]>>, <<[chin |-> <<>>]>>}
OpenLists ==
    {<<BothEyes(OpenEye, OpenEye)>>, <<BothEyes(EdgeEye, EdgeEye)>>,
     <<BothEyes(OpenEye, ClosedEye)>>}
FrameKind(face_landmarks_list) ==
    IF face_landmarks_list \in AbsentLists THEN "absent"
    ELSE IF face_landmarks_list \in OpenLists THEN "open"
    ELSE "closed"

\* The two ratios line 174 computes for the first face, none when the
\* detector returns before it.
EarsComputed(face_landmarks_list) ==
    IF Len(face_landmarks_list) = 0 THEN <<>>
    ELSE LET landmarks == face_landmarks_list[1] IN
         IF "left_eye" \notin DOMAIN landmarks \/ "right_eye" \notin DOMAIN landmarks
         THEN <<>>
         ELSE <<EyeAspectRatio[landmarks.left_eye],
                EyeAspectRatio[landmarks.right_eye]>>

FeedFrame(face_landmarks_list) ==
    LET lv == CheckLivenessInternal(face_landmarks_list, blink_counter) IN
    /\ Len(blink_trace) < MaxFrames
    /\ blink_counter' = lv.blink_counter
    /\ ears' = EarsComputed(face_landmarks_list)
    /\ blink_trace' = Append(blink_trace,
                             [kind |-> FrameKind(face_landmarks_list), live |-> lv.live,
                              blink_counter |-> lv.blink_counter])
    /\ UNCHANGED <<workflow_state, last_state_change_time,
                   pending_verification_user, scan_progress, known_users,
                   db_users, users_schema, csv_rows, now, outcome, gui, iris,
                   probes>>

NextBlink == \E face_landmarks_list \in LandmarkLists : FeedFrame(face_landmarks_list)

SpecBlink == Init /\ [][NextBlink]_vars

(***************************************************************************)
(* The attendance window (src/main_gui.py): HomePage.open_mark_attendance  *)
(* opens a MarkAttendanceApp on the one AttendanceSystem the application   *)
(* has; its update_video loop ticks the backend every 30 ms until the      *)
(* window is closed.  Windows are counted, not told apart: running is the  *)
(* number of them whose loop is scheduled, acknowledging the number that   *)
(* stopped on FINAL_SUCCESS and show the success dialog.  The callbacks    *)
(* run one at a time on the Tk event loop; the dialog is the one place     *)
(* where a callback waits while others run.  Clicks go to the dialog while *)
(* one is shown.  A loop whose camera read fails does not tick, which is a *)
(* step that changes nothing.  __init__ makes the first update_video call  *)
(* itself, so opening a window resets the session and, when the camera     *)
(* delivers a frame, ticks it once.                                        *)
(***************************************************************************)
GuiOutcome(op, raised, success) == Outcome(op, raised, NoStatus, "none", success)

\* HomePage.open_mark_attendance, then MarkAttendanceApp.__init__:
\* reset_workflow and the first call of update_video, which ticks the session
\* just reset when the camera read succeeds (ret) and schedules the loop.  A
\* tick that raises leaves __init__ before the loop is scheduled.
OpenMarkAttendance(ret, frame, sink_ok) ==
    /\ acknowledging = 0
    /\ running < MaxWindows
    /\ IF ~HasEnrolledUsers(known_users)
       THEN /\ outcome' = GuiOutcome("open_mark_attendance", FALSE, FALSE)
            /\ UNCHANGED <<session, gui, csv_rows>>
       ELSE LET r == IF ret
                     THEN RunAttendanceCheck(ResetWorkflow(now), known_users,
                                             frame, now, csv_rows, sink_ok)
                     ELSE TickResult(ResetWorkflow(now), FALSE, NoStatus,
                                     csv_rows, "none")
            IN  /\ SetSession(r.s)
                /\ csv_rows' = r.csv
                /\ outcome' = GuiOutcome("open_mark_attendance", r.raised,
                                         ~r.raised)
                /\ IF r.raised
                   THEN UNCHANGED gui
                   ELSE IF r.s.workflow_state = FINAL_SUCCESS
                        THEN /\ acknowledging' = acknowledging + 1
                             /\ UNCHANGED running
                        ELSE /\ running' = running + 1
                             /\ UNCHANGED acknowledging
    /\ UNCHANGED <<known_users, db_users, users_schema, now, blink_trace, ears, probes, iris>>

\* MarkAttendanceApp.update_video on a frame the camera delivered, up to the
\* success dialog.  A tick that raises leaves the callback before it is
\* scheduled again.
UpdateVideo(frame, sink_ok) ==
    LET r == RunAttendanceCheck(CurrentSession, known_users, frame, now,
                                csv_rows, sink_ok)
    IN  /\ running > 0
        /\ r.s.blink_counter <= MaxBlink
        /\ Len(r.csv) <= MaxEvents + 1
        /\ SetSession(r.s)
        /\ csv_rows' = r.csv
        /\ outcome' = GuiOutcome("update_video", r.raised, ~r.raised)
        /\ IF r.raised
           THEN running' = running - 1 /\ UNCHANGED acknowledging
           ELSE IF r.s.workflow_state = FINAL_SUCCESS
                THEN running' = running - 1 /\ acknowledging' = acknowledging + 1
                ELSE UNCHANGED gui
        /\ UNCHANGED <<known_users, db_users, users_schema, now, blink_trace, ears, probes, iris>>

\* Mutant of Acknowledge: the window closes without reset_workflow.
AcknowledgeWithoutReset ==
    /\ acknowledging > 0
    /\ acknowledging' = acknowledging - 1
    /\ outcome' = GuiOutcome("acknowledge", FALSE, TRUE)
    /\ UNCHANGED <<session, running, known_users, db_users, users_schema, csv_rows, now,
                   blink_trace, ears, probes, iris>>

\* The rest of update_video once the success dialog is dismissed:
\* reset_workflow and close_window.
Acknowledge ==
    /\ acknowledging > 0
    /\ acknowledging' = acknowledging - 1
    /\ SetSession(ResetWorkflow(now))
    /\ outcome' = GuiOutcome("acknowledge", FALSE, TRUE)
    /\ UNCHANGED <<running, known_users, db_users, users_schema, csv_rows, now, blink_trace, ears, probes, iris>>

\* MarkAttendanceApp.close_window from the Close button of a window whose loop
\* is live.
CloseWindow ==
    /\ acknowledging = 0
    /\ running > 0
    /\ running' = running - 1
    /\ outcome' = GuiOutcome("close_window", FALSE, TRUE)
    /\ UNCHANGED <<session, acknowledging, known_users, db_users, users_schema, csv_rows, now,
                   blink_trace, ears, probes, iris>>

NextGui ==
    \/ \E ret \in BOOLEAN, frame \in Frames, sink_ok \in BOOLEAN :
           OpenMarkAttendance(ret, frame, sink_ok)
    \/ \E frame \in Frames, sink_ok \in BOOLEAN : UpdateVideo(frame, sink_ok)
    \/ Acknowledge
    \/ CloseWindow
    \/ AdvanceClock

SpecGui == Init /\ [][NextGui]_vars

(***************************************************************************)
(* The iris matcher run on its own: a pair of templates is compared, then  *)
(* the distance is put to is_match.                                        *)
(***************************************************************************)
InitIris == InitBackend /\ db_users = <<>> /\ iris \in IrisInputs

\* compare_iris_codes(t1, t2)
CompareStep ==
    /\ iris.encoded
    /\ ~iris.done
    /\ iris.error = ""
    /\ LET r == CompareCall(iris.t1, iris.t2) IN
         iris' = [iris EXCEPT !.done = (r.error = ""), !.error = r.error,
                              !.result = r.result]
    /\ UNCHANGED <<session, known_users, db_users, users_schema, csv_rows, now, outcome,
                   blink_trace, ears, probes, gui>>

\* is_match(distance, threshold) on the distance returned.
DecideStep(threshold_pct) ==
    /\ iris.done
    /\ ~iris.decided
    /\ iris' = [iris EXCEPT !.decided = TRUE, !.threshold = threshold_pct,
                            !.match = IsMatch(iris.result.hd, threshold_pct)]
    /\ UNCHANGED <<session, known_users, db_users, users_schema, csv_rows, now, outcome,
                   blink_trace, ears, probes, gui>>

NextIris ==
    \/ CompareStep
    \/ \E threshold_pct \in Thresholds : DecideStep(threshold_pct)

SpecIris == InitIris /\ [][NextIris]_vars

(***************************************************************************)
(* The encoder and the matcher together: two images are encoded with       *)
(* create_iris_code, one after the other, and the templates compared.      *)
(***************************************************************************)
InitEncode ==
    InitBackend /\ db_users = <<>> /\ iris \in EncodeInputs

\* One call of create_iris_code, on the first image and then on the second:
\* FileNotFoundError ends the script when imread returned None, with the
\* templates built so far and nothing compared.
EncodeStep ==
    /\ ~iris.encoded
    /\ iris.error = ""
    /\ LET k == iris.built + 1
           r == CreateIrisCodeOfImage(iris.src[k])
       IN  iris' = IF r.error # ""
                   THEN [iris EXCEPT !.error = r.error]
                   ELSE [iris EXCEPT
                           !.built = k,
                           !.encoded = (k = 2),
                           !.t1 = IF k = 1 THEN r.template ELSE @,
                           !.t2 = IF k = 2 THEN r.template ELSE @]
    /\ UNCHANGED <<session, known_users, db_users, users_schema, csv_rows, now, outcome,
                   blink_trace, ears, probes, gui>>

NextEncode ==
    \/ EncodeStep
    \/ CompareStep

SpecEncode == InitEncode /\ [][NextEncode]_vars

(***************************************************************************)
(* The enrollment window (src/main_gui.py, EnrollmentApp): the Capture     *)
(* button, the name entry, the timer callbacks of the countdown, the       *)
(* message box that follows add_user and the Close buttons.  Tk runs one   *)
(* callback at a time; a message box takes the clicks until it is          *)
(* dismissed.                                                              *)
(***************************************************************************)
\* What the name entry may hold, and str.strip() of it.
EntryTexts == {"", "ann", "  "}
Strip(text) == IF text = "  " THEN "" ELSE text

\* The user types in the name entry.
EditName(text) ==
    /\ enrollment.dialog = "none"
    /\ text # enrollment.name_entry
    /\ enrollment' = [enrollment EXCEPT !.name_entry = text]
    /\ UNCHANGED <<session, known_users, db_users, users_schema, csv_rows, now, outcome,
                   blink_trace, ears, gui, iris, app, logged>>

\* start_enrollment_process, the command of the Capture button; an accepted
\* click runs _do_countdown once at once: 3 becomes 2 and a callback is queued.
StartEnrollmentProcess ==
    /\ enrollment.dialog = "none"
    /\ enrollment.clicks < MaxClicks
    /\ enrollment' =
           IF enrollment.countdown_running
           THEN [enrollment EXCEPT !.clicks = @ + 1]
           ELSE IF Strip(enrollment.name_entry) = ""
           THEN [enrollment EXCEPT !.clicks = @ + 1, !.dialog = "error"]
           ELSE [enrollment EXCEPT !.clicks = @ + 1, !.accepted = @ + 1,
                                   !.countdown_running = TRUE,
                                   !.countdown = 3 - 1,
                                   !.timers = @ + 1]
    /\ UNCHANGED <<session, known_users, db_users, users_schema, csv_rows, now, outcome,
                   blink_trace, ears, gui, iris, app, logged>>

\* _do_countdown run by the timer: it counts down and queues itself again, or,
\* at 0, calls add_user with the name the entry holds then and shows the
\* message box.
DoCountdown(n_faces, embedding, user_id, save_ok, failing_row) ==
    /\ enrollment.timers > 0
    /\ IF enrollment.countdown > 0
       THEN /\ enrollment' = [enrollment EXCEPT !.countdown = @ - 1]
            /\ UNCHANGED <<known_users, db_users>>
       ELSE LET name == Strip(enrollment.name_entry)
                r == AddUser(known_users, db_users, name, n_faces, embedding,
                             user_id, InsertAccepted(save_ok), failing_row)
            IN  /\ Len(r.db) <= MaxUsers
                /\ user_id <= Len(db_users) + 1
                /\ known_users' = r.known_users
                /\ db_users' = r.db
                /\ enrollment' =
                       [enrollment EXCEPT
                           !.timers = @ - 1,
                           !.countdown_running = FALSE,
                           !.calls = Append(@, name),
                           !.dialog = IF r.success THEN "success" ELSE "error"]
    /\ UNCHANGED <<session, users_schema, csv_rows, now, outcome, blink_trace,
                   ears, gui, iris, app, logged>>

\* The message box is dismissed; after a success close_window destroys the
\* window.
DismissDialog ==
    /\ enrollment.dialog \in {"error", "success"}
    /\ enrollment' = [enrollment EXCEPT
                         !.dialog = IF @ = "success" THEN "closed" ELSE "none"]
    /\ UNCHANGED <<session, known_users, db_users, users_schema, csv_rows, now, outcome,
                   blink_trace, ears, gui, iris, app, logged>>

\* EnrollmentApp.close_window as the command of the Close buttons: the window
\* is destroyed and the pending callback of _do_countdown goes with it, so an
\* accepted click whose countdown is running never reaches add_user.
EnrollmentCloseWindow ==
    /\ enrollment.dialog = "none"
    /\ enrollment' = [enrollment EXCEPT !.dialog = "closed", !.timers = 0]
    /\ UNCHANGED <<session, known_users, db_users, users_schema, csv_rows, now, outcome,
                   blink_trace, ears, gui, iris, app, logged>>

NextEnrollment ==
    \/ \E text \in EntryTexts : EditName(text)
    \/ StartEnrollmentProcess
    \/ \E e \in WindowEnrollInputs : DoCountdown(e[2], e[3], e[4], e[5], e[6])
    \/ DismissDialog
    \/ EnrollmentCloseWindow

SpecEnrollment == Init /\ [][NextEnrollment]_vars

(***************************************************************************)
(* The loop of src/app.py: every frame goes to vision_utils.check_blink; a *)
(* blink raises the liveness latch, and while the latch is up the faces of *)
(* the frame are compared with the stored profiles.  The users table the   *)
(* script loads is the one the enrollment fills before it is started.      *)
(***************************************************************************)
\* The modules vision_utils.py imports, which are the module names its
\* functions can use.
VisionUtilsImports == {"math", "mp"}

\* vision_utils.check_blink on the face mesh of a frame (at most one face,
\* max_num_faces=1).  Its first statement calls cv2.cvtColor: with cv2 not
\* among the names of the module the call raises NameError.  Past it, the
\* ratio is the mean of the two eyes' ratios.
CheckBlink(mesh, bc) ==
    IF "cv2" \notin VisionUtilsImports
    THEN [raised |-> TRUE, live |-> FALSE, blink_counter |-> bc]
    ELSE IF Len(mesh) = 0
    THEN [raised |-> FALSE, live |-> FALSE, blink_counter |-> 0]
    ELSE LET l == EyeAspectRatio[mesh[1].left_eye]
             r == EyeAspectRatio[mesh[1].right_eye]
         IN  IF 100 * (l.num * r.den + r.num * l.den)
                    < 2 * VU_EAR_THRESHOLD_PCT * l.den * r.den
             THEN [raised |-> FALSE, live |-> FALSE, blink_counter |-> bc + 1]
             ELSE [raised |-> FALSE,
                   live |-> VU_BLINK_FRAMES_MIN <= bc /\ bc <= VU_BLINK_FRAMES_MAX,
                   blink_counter |-> 0]

\* The name drawn for one face: that of the nearest stored profile when
\* compare_faces accepts it (distance <= 0.6), "Unknown" otherwise.
NameOfFace(users, face_embedding) ==
    IF Len(users) = 0 THEN "Unknown"
    ELSE LET best_match_index == ArgMin(users, face_embedding) IN
         IF FaceDistanceSq(users[best_match_index].embedding, face_embedding)
                <= FACE_TOLERANCE_TENTHS * FACE_TOLERANCE_TENTHS
         THEN users[best_match_index].name
         ELSE "Unknown"

\* One pass of the loop body: a failed camera read (ret false) leaves the
\* loop by break; otherwise the frame, with the given face mesh and the
\* embeddings of the faces located in it, goes to check_blink, whose call is
\* outside the try block, so that an exception of it leaves the loop and ends
\* the script with the pass not completed.
LoopBody(a, users, ret, mesh, faces) ==
    LET cb == CheckBlink(mesh, a.blink_counter)
        latched == a.liveness_verified \/ cb.live
        names == IF latched
                 THEN [i \in 1..Len(faces) |-> NameOfFace(users, faces[i])]
                 ELSE <<>>
        known == {i \in 1..Len(names) : names[i] # "Unknown"}
    IN  IF ~ret THEN [a EXCEPT !.exit = "break"]
        ELSE IF cb.raised THEN [a EXCEPT !.exit = "NameError"]
        ELSE
        [blink_counter |-> cb.blink_counter,
         liveness_verified |-> latched /\ known = {},
         liveness_status_text |->
             IF known # {} THEN "Verified! Please Blink Again"
             ELSE IF cb.live THEN "Liveness Verified!"
             ELSE a.liveness_status_text,
         names |-> names,
         since_blink |-> (IF cb.live THEN 0 ELSE a.since_blink)
                             + Cardinality(known),
         frames |-> a.frames + 1,
         exit |-> a.exit]

\* The frames the camera delivers: no mesh, open eyes or closed eyes, with no
\* face, one face or two faces located.
Meshes ==
    {<<>>, <<BothEyes(OpenEye, OpenEye)>>, <<BothEyes(ClosedEye, ClosedEye)>>}
FaceEmbeddings == {<<0, 0>>, <<3, 0>>, <<6, 8>>}
FaceLists ==
    {<<>>} \cup {<<e>> : e \in FaceEmbeddings}
           \cup {<<e1, e2>> : e1 \in FaceEmbeddings, e2 \in FaceEmbeddings}

LoopFrame(ret, mesh, faces) ==
    /\ app.exit = "running"
    /\ app.frames < MaxLoopFrames
    /\ app' = LoopBody(app, db_users, ret, mesh, faces)
    /\ UNCHANGED <<session, known_users, db_users, users_schema, csv_rows, now, outcome,
                   blink_trace, ears, gui, iris, enrollment, logged>>

\* An enrollment that fills the users table before app.py is started.
EnrollBeforeApp(name, n_faces, embedding, user_id, save_ok, failing_row) ==
    /\ app = AppStart
    /\ Enroll(name, n_faces, embedding, user_id, save_ok, failing_row)

\* database.add_user(name, embedding), as enroll.py and multi_enroll_gui.py
\* call it: the row is inserted as it is given, with the next id and with no
\* check of the name or of the profiles already stored; the profile set of
\* the backend is not reloaded.  On the table of backend.py the INSERT fails
\* (user_id is NOT NULL) and the IntegrityError is raised to the caller.
DatabaseAddUser(name, embedding) ==
    /\ Len(db_users) < MaxUsers
    /\ IF users_schema = DATABASE_SCHEMA
       THEN /\ db_users' = Append(db_users,
                                  DatabaseRow(Len(db_users) + 1, name, embedding))
            /\ outcome' = Outcome("database.add_user", FALSE, NoStatus, "none",
                                  TRUE)
       ELSE /\ db_users' = db_users
            /\ outcome' = Outcome("database.add_user", TRUE, NoStatus, "none",
                                  FALSE)
    /\ UNCHANGED <<session, known_users, users_schema, csv_rows, now,
                   blink_trace, ears, probes, gui, iris>>

\* The names enroll.py reads from the terminal: any line, the empty one too.
DatabaseNames == Names \cup {""}

\* A row written by enroll.py or multi_enroll_gui.py before app.py is started.
DatabaseAddUserBeforeApp(name, embedding) ==
    /\ app = AppStart
    /\ DatabaseAddUser(name, embedding)

\* app.py and the programs that fill its table, on a table made by backend.py
\* or by database.py.
InitApp == Init \/ InitBackendOnDatabaseTable

NextApp ==
    \/ \E e \in WindowEnrollInputs :
           EnrollBeforeApp(e[1], e[2], e[3], e[4], e[5], e[6])
    \/ \E name \in DatabaseNames, embedding \in EnrolledEmbeddings :
           DatabaseAddUserBeforeApp(name, embedding)
    \/ \E ret \in BOOLEAN, mesh \in Meshes, faces \in FaceLists :
           LoopFrame(ret, mesh, faces)

SpecApp == InitApp /\ [][NextApp]_vars

(***************************************************************************)
(* log_attendance run on its own: calls in a row on an attendance.csv that *)
(* is absent or empty at the start.                                        *)
(***************************************************************************)
\* The profiles logged.
LoggedUsers ==
    {UserRow(1, "ann", <<0, 0>>), UserRow(2, "ann", <<6, 0>>)}

LogCall(user) ==
    /\ Len(logged) < MaxLogCalls
    /\ csv_rows' = LogAttendance(csv_rows, user)
    /\ logged' = Append(logged, user)
    /\ UNCHANGED <<session, known_users, db_users, users_schema, now, outcome, blink_trace,
                   ears, gui, iris, enrollment, app>>

NextLog == \E user \in LoggedUsers : LogCall(user)

SpecLog == Init /\ [][NextLog]_vars

(***************************************************************************)
(* Properties.  TickAt(frame, sink_ok) is what a tick issued in the        *)
(* current state with that frame does; a property quantified over the      *)
(* frames speaks of every tick that can be issued in a reachable state.    *)
(***************************************************************************)
TickAt(frame, sink_ok) ==
    RunAttendanceCheck(CurrentSession, known_users, frame, now, csv_rows, sink_ok)

Elapsed == now - last_state_change_time

\* The frame ends a blink: eyes open after a closed-eye run of 2 to 6 frames.
CompletesBlink(frame) ==
    FrameKind(frame.landmarks) = "open" /\ blink_counter \in 2..6

TraceCounterBefore(i) == IF i = 1 THEN 0 ELSE blink_trace[i - 1].blink_counter

\* C4: for a run of n >= 1 consecutive closed-eye frames that starts from counter
\* 0 and is followed by an open-eye frame, the detector signals liveness on the
\* open-eye frame exactly when 2 <= n <= 6, signals on no frame of the run, and
\* leaves the counter at 0 after the open-eye frame, whatever n is.
C4_BlinkBand ==
    \A i \in 1..Len(blink_trace) : \A j \in (i + 1)..Len(blink_trace) :
        ( /\ TraceCounterBefore(i) = 0
          /\ \A k \in i..(j - 1) : blink_trace[k].kind = "closed"
          /\ blink_trace[j].kind = "open" )
        => /\ blink_trace[j].live <=> (2 <= j - i /\ j - i <= 6)
           /\ blink_trace[j].blink_counter = 0
           /\ \A k \in i..(j - 1) : ~blink_trace[k].live

\* Six closed-eye frames from counter 0, then an open-eye frame that signals.
C4_Witness ==
    /\ Len(blink_trace) >= 7
    /\ \A k \in 1..6 : blink_trace[k].kind = "closed"
    /\ blink_trace[7].kind = "open"
    /\ blink_trace[7].live

\* C5: the blink counter is 0 after every frame without a face or without eye
\* landmarks, so a liveness signal is always preceded directly by at least two
\* closed-eye frames with no face-absent frame among them.
C5_AbsentFrameResets ==
    /\ \A k \in 1..Len(blink_trace) :
          blink_trace[k].kind = "absent" => blink_trace[k].blink_counter = 0
    /\ \A k \in 1..Len(blink_trace) :
          blink_trace[k].live =>
              /\ k >= 3
              /\ blink_trace[k - 1].kind = "closed"
              /\ blink_trace[k - 2].kind = "closed"

NoUsersStatus == Status("No users enrolled. Please enroll users first.", "", RED, 0)

DataRows(rows) == {i \in 1..Len(rows) : rows[i] # HeaderRow}

\* C1 (as claimed): the attendance sink is invoked on a tick exactly when that
\* tick moves the session from CHECKING_LIVENESS to VERIFYING, and then it
\* records one row, for the pending profile; no other tick touches the CSV.
C1_SinkExactlyOnTransition ==
    \A frame \in Frames, sink_ok \in BOOLEAN :
        LET r == TickAt(frame, sink_ok)
            moves == /\ workflow_state = CHECKING_LIVENESS
                     /\ r.s.workflow_state = VERIFYING
        IN  /\ (r.sink # "none") <=> moves
            /\ moves =>
                  /\ Cardinality(DataRows(r.csv)) = Cardinality(DataRows(csv_rows)) + 1
                  /\ r.csv[Len(r.csv)].user_id = pending_verification_user.user_id
                  /\ r.csv[Len(r.csv)].name = pending_verification_user.name
            /\ ~moves => r.csv = csv_rows

\* C2 (as claimed): every tick issued in CHECKING_LIVENESS more than 10 seconds
\* after the state was entered resets the session and records no attendance,
\* whatever the frame is.
C2_TimeoutAlwaysResets ==
    (workflow_state = CHECKING_LIVENESS /\ Elapsed > 10) =>
        \A frame \in Frames, sink_ok \in BOOLEAN :
            LET r == TickAt(frame, sink_ok) IN
            /\ r.s.workflow_state = WAITING_FOR_FACE
            /\ r.s.pending_verification_user = NoUser
            /\ r.s.blink_counter = 0
            /\ r.csv = csv_rows

\* C2 (amended): a tick issued in CHECKING_LIVENESS more than 10 seconds after
\* the state was entered, with a frame that does not complete a blink and a
\* profile set that is not empty, returns to WAITING_FOR_FACE with the pending
\* profile cleared, the counter at 0 and no attendance recorded; a tick at 10
\* seconds or less does not reset.
C2_TimeoutResetsWithoutBlink ==
    (workflow_state = CHECKING_LIVENESS /\ Len(known_users) > 0) =>
        \A frame \in Frames, sink_ok \in BOOLEAN :
            LET r == TickAt(frame, sink_ok) IN
            ~CompletesBlink(frame) =>
                /\ Elapsed > 10 =>
                      /\ r.s = Session(WAITING_FOR_FACE, 0, now, NoUser, 0)
                      /\ r.csv = csv_rows
                      /\ r.sink = "none"
                      /\ ~r.raised
                /\ Elapsed <= 10 =>
                      /\ r.s.workflow_state = CHECKING_LIVENESS
                      /\ r.s.pending_verification_user = pending_verification_user

\* The timeout tick has just run: it answered with the blink prompt and left
\* the session reset.
C2_Witness ==
    /\ outcome.op = "tick"
    /\ outcome.status.color = ORANGE
    /\ workflow_state = WAITING_FOR_FACE
    /\ pending_verification_user = NoUser
    /\ last_state_change_time = now
    /\ now > 10

\* C3 (as claimed): when the sink fails on the tick that confirms the blink, the
\* tick still returns a status and the session still moves to VERIFYING.
C3_SinkFailureNotFatal ==
    (workflow_state = CHECKING_LIVENESS /\ Len(known_users) > 0) =>
        \A frame \in Frames :
            CompletesBlink(frame) =>
                LET r == TickAt(frame, FALSE) IN
                /\ ~r.raised
                /\ r.s.workflow_state = VERIFYING

\* C6 (as claimed): a tick in VERIFYING at least 5 seconds after VERIFYING was
\* entered moves to FINAL_SUCCESS with progress 100; an earlier one stays.
C6_DwellAtLeastFive ==
    workflow_state = VERIFYING =>
        \A frame \in Frames, sink_ok \in BOOLEAN :
            LET r == TickAt(frame, sink_ok) IN
            /\ Elapsed >= 5 =>
                  /\ r.s.workflow_state = FINAL_SUCCESS
                  /\ r.status.progress = 100
            /\ Elapsed < 5 => r.s.workflow_state = VERIFYING

\* C6 (amended): with a profile set that is not empty, a tick in VERIFYING more
\* than 5 seconds after VERIFYING was entered moves to FINAL_SUCCESS and returns
\* progress 100; at 5 seconds or less the machine stays in VERIFYING.
C6_DwellMoreThanFive ==
    (workflow_state = VERIFYING /\ Len(known_users) > 0) =>
        \A frame \in Frames, sink_ok \in BOOLEAN :
            LET r == TickAt(frame, sink_ok) IN
            /\ Elapsed > 5 =>
                  /\ r.s.workflow_state = FINAL_SUCCESS
                  /\ r.status.progress = 100
                  /\ ~r.raised
            /\ Elapsed <= 5 => r.s.workflow_state = VERIFYING

\* The tick that ended the dwell has just run.
C6_Witness ==
    /\ outcome.op = "tick"
    /\ outcome.status.text = "Verifying..."
    /\ outcome.status.progress = 100
    /\ workflow_state = FINAL_SUCCESS
    /\ Elapsed > 5

ProgressOf(elapsed_time) ==
    IF elapsed_time * 20 < 100 THEN elapsed_time * 20 ELSE 100

\* C7: every tick that returns gives a (message, color, progress) triple with
\* progress in 0..100, 0 when the state after the tick is WAITING_FOR_FACE or
\* CHECKING_LIVENESS, 100 in FINAL_SUCCESS, and min(elapsed/duration x 100,
\* 100) in VERIFYING, where it does not decrease from one tick to the next.
C7_ProgressByState ==
    /\ [](\A frame \in Frames, sink_ok \in BOOLEAN :
            LET r == TickAt(frame, sink_ok)
                after == r.s.workflow_state
            IN  ~r.raised =>
                  /\ r.status.progress \in 0..100
                  /\ r.status.color \in {YELLOW, RED, ORANGE, GREEN}
                  /\ r.status.text # ""
                  /\ r.s.scan_progress = r.status.progress
                  /\ after \in {WAITING_FOR_FACE, CHECKING_LIVENESS} =>
                        r.status.progress = 0
                  /\ after = FINAL_SUCCESS => r.status.progress = 100
                  /\ after = VERIFYING =>
                        r.status.progress =
                            ProgressOf(now - r.s.last_state_change_time))
    /\ [][ ( /\ workflow_state = VERIFYING
             /\ workflow_state' \in {VERIFYING, FINAL_SUCCESS} )
           => scan_progress' >= scan_progress ]_vars

\* C8: a tick issued while the profile set is empty returns the
\* 'no users enrolled' error status with progress 0, does not raise, changes no
\* session field, and the machine is in WAITING_FOR_FACE.
C8_EmptySetMeansWaiting ==
    Len(known_users) = 0 =>
        /\ workflow_state = WAITING_FOR_FACE
        /\ \A frame \in Frames, sink_ok \in BOOLEAN :
              LET r == TickAt(frame, sink_ok) IN
              /\ ~r.raised
              /\ r.status = NoUsersStatus
              /\ r.s = CurrentSession

NoFacePresent(frame) == Len(frame.landmarks) = 0 \/ frame.locations = 0

\* C9: a tick in WAITING_FOR_FACE with no face present (empty landmark list, or
\* no face located) does not raise, records nothing and leaves workflow state,
\* blink counter, timestamp, pending profile and progress unchanged; a further
\* such tick, with any no-face frame and at any later time, returns the same
\* status and leaves the same session.
C9_NoFaceTickIdempotent ==
    workflow_state = WAITING_FOR_FACE =>
        \A frame \in Frames, sink_ok \in BOOLEAN :
            NoFacePresent(frame) =>
                LET r == TickAt(frame, sink_ok) IN
                /\ ~r.raised
                /\ r.s = CurrentSession
                /\ r.csv = csv_rows
                /\ r.status.progress = 0
                /\ \A again \in Frames, t \in now..MaxTime :
                      NoFacePresent(again) =>
                          RunAttendanceCheck(r.s, known_users, again, t, r.csv,
                                             sink_ok) = r

\* A no-face tick has just run, some time after the session was last reset.
C9_Witness ==
    /\ outcome.op = "tick"
    /\ outcome.status.text = "Please Look at the Camera"
    /\ workflow_state = WAITING_FOR_FACE
    /\ Len(known_users) > 0
    /\ last_state_change_time < now

FacePresent(frame) == Len(frame.landmarks) > 0 /\ frame.locations > 0

SquaredDistance(i, frame) ==
    LET a == known_users[i].embedding
        b == frame.embedding
    IN  (a[1] - b[1]) * (a[1] - b[1]) + (a[2] - b[2]) * (a[2] - b[2])

\* The first enrolled profile among those nearest to the live face.
Nearest(frame) ==
    CHOOSE i \in 1..Len(known_users) :
        /\ \A j \in 1..Len(known_users) :
              SquaredDistance(i, frame) <= SquaredDistance(j, frame)
        /\ \A j \in 1..Len(known_users) :
              SquaredDistance(j, frame) = SquaredDistance(i, frame) => i <= j

\* C10: in WAITING_FOR_FACE with a face present, the tick moves to
\* CHECKING_LIVENESS exactly when the smallest distance between the live feature
\* and the enrolled features is strictly below 0.6; then the pending profile is
\* the first profile at that distance, the counter is 0 and the timestamp is the
\* time of the tick; otherwise the session is unchanged and the status returned
\* is an error status.
C10_IdentityMatch ==
    workflow_state = WAITING_FOR_FACE =>
        \A frame \in Frames, sink_ok \in BOOLEAN :
            FacePresent(frame) =>
                LET r == TickAt(frame, sink_ok)
                    matched ==
                        \E i \in 1..Len(known_users) :
                            SquaredDistance(i, frame) < 6 * 6
                IN  /\ ~r.raised
                    /\ r.csv = csv_rows
                    /\ (r.s.workflow_state = CHECKING_LIVENESS) <=> matched
                    /\ matched =>
                          r.s = Session(CHECKING_LIVENESS, 0, now,
                                        known_users[Nearest(frame)], 0)
                    /\ ~matched =>
                          /\ r.s = CurrentSession
                          /\ r.status.color = RED

\* The match tick has just run and chose the second of two enrolled profiles.
C10_Witness ==
    /\ outcome.op = "tick"
    /\ outcome.status.text = "Please Look at the Camera"
    /\ workflow_state = CHECKING_LIVENESS
    /\ Len(known_users) = 2
    /\ known_users[1] # known_users[2]
    /\ pending_verification_user = known_users[2]
    /\ blink_counter = 0
    /\ last_state_change_time = now

TickEdges ==
    {<<WAITING_FOR_FACE, CHECKING_LIVENESS>>, <<CHECKING_LIVENESS, VERIFYING>>,
     <<CHECKING_LIVENESS, WAITING_FOR_FACE>>, <<VERIFYING, FINAL_SUCCESS>>}

Rows(table) == {table[i] : i \in 1..Len(table)}

\* C11: the workflow state is always one of the four states; a tick changes it
\* only along WAITING_FOR_FACE -> CHECKING_LIVENESS (a profile becomes pending),
\* CHECKING_LIVENESS -> VERIFYING (the blink was confirmed and logged, the pending
\* profile kept), CHECKING_LIVENESS -> WAITING_FOR_FACE (pending cleared) or
\* VERIFYING -> FINAL_SUCCESS; the only other step that changes it is a call of
\* reset_workflow; so in VERIFYING and FINAL_SUCCESS there is a pending profile,
\* an enrolled one, with an attendance row recorded for it.
C11_StateGraph ==
    /\ [](/\ workflow_state \in WorkflowStates
          /\ workflow_state # WAITING_FOR_FACE =>
                /\ pending_verification_user # NoUser
                /\ pending_verification_user \in Rows(db_users)
          /\ workflow_state = WAITING_FOR_FACE => blink_counter = 0
          /\ workflow_state \in {VERIFYING, FINAL_SUCCESS} =>
                \E i \in DataRows(csv_rows) :
                    csv_rows[i].user_id = pending_verification_user.user_id)
    /\ [][ workflow_state' # workflow_state =>
             \/ /\ outcome'.op = "reset_workflow"
                /\ workflow_state' = WAITING_FOR_FACE
             \/ /\ outcome'.op = "tick"
                /\ ~outcome'.raised
                /\ <<workflow_state, workflow_state'>> \in TickEdges
                /\ workflow_state' = CHECKING_LIVENESS =>
                      /\ pending_verification_user' \in Rows(known_users)
                      /\ outcome'.sink = "none"
                /\ workflow_state' = VERIFYING =>
                      /\ outcome'.sink = "ok"
                      /\ pending_verification_user' = pending_verification_user
                      /\ Len(csv_rows') = Len(csv_rows) + 1
                         \/ Len(csv_rows') = Len(csv_rows) + 2
                /\ workflow_state' = FINAL_SUCCESS =>
                      /\ pending_verification_user' = pending_verification_user
                      /\ csv_rows' = csv_rows
                /\ workflow_state' = WAITING_FOR_FACE =>
                      /\ pending_verification_user' = NoUser
                      /\ csv_rows' = csv_rows ]_vars

\* A session has gone all the way: matched, blinked, dwelt, and a tick has
\* answered in FINAL_SUCCESS.
C11_Witness ==
    /\ outcome.op = "tick"
    /\ outcome.status.text = "Attendance Marked for {name}"
    /\ workflow_state = FINAL_SUCCESS
    /\ pending_verification_user \in Rows(known_users)

\* C12: after reset_workflow, called in any state, the session is in
\* WAITING_FOR_FACE with no pending profile, blink counter 0, progress 0 and the
\* time of the call as timestamp; the call changes neither the profile set, nor
\* the user table, nor the CSV; and a second call leaves the same session as
\* the first, the timestamp apart.
C12_ResetWorkflow ==
    /\ [](/\ outcome.op = "reset_workflow" =>
                /\ workflow_state = WAITING_FOR_FACE
                /\ pending_verification_user = NoUser
                /\ blink_counter = 0
                /\ scan_progress = 0
                /\ last_state_change_time <= now
          /\ \A t \in now..MaxTime :
                [ResetWorkflow(t) EXCEPT !.last_state_change_time = 0]
                    = Session(WAITING_FOR_FACE, 0, 0, NoUser, 0))
    /\ [][ outcome'.op = "reset_workflow" =>
             /\ known_users' = known_users
             /\ db_users' = db_users
             /\ csv_rows' = csv_rows
             /\ now' = now => last_state_change_time' = now
             /\ outcome.op = "reset_workflow" =>
                   <<workflow_state', blink_counter', pending_verification_user',
                     scan_progress'>>
                       = <<workflow_state, blink_counter,
                           pending_verification_user, scan_progress>> ]_vars

\* reset_workflow has just been called after a session that recorded attendance.
C12_Witness ==
    /\ outcome.op = "reset_workflow"
    /\ last_state_change_time = now
    /\ now > 5
    /\ Len(known_users) > 0
    /\ Len(csv_rows) = 2

\* C13 (as claimed): whenever no attendance loop is live and the last one
\* stopped because the success dialog was acknowledged or because the user
\* closed the window, the backend session is in WAITING_FOR_FACE with no pending
\* profile and blink counter 0.
C13_StoppedLoopIsReset ==
    ( /\ running = 0
      /\ acknowledging = 0
      /\ outcome.op \in {"acknowledge", "close_window"} ) =>
        /\ workflow_state = WAITING_FOR_FACE
        /\ pending_verification_user = NoUser
        /\ blink_counter = 0

\* C14 (as claimed): at no time are two attendance loops live on the
\* AttendanceSystem instance, and a window is opened (which resets the session)
\* only while no other window's loop is live or waits on its success dialog.
C14_OneLiveLoop == running + acknowledging <= 1

\* What add_user does when called in the current state.
AddUserAt(e) ==
    AddUser(known_users, db_users, e[1], e[2], e[3], e[4], e[5], e[6])

\* The calls of add_user the properties range over: those of EnrollInputs, and
\* frames with no face, two faces and three faces with every storage outcome.
AddUserInputs ==
    WindowEnrollInputs \cup
        {<<"ann", n, <<6, 0>>, 2, ok[1], ok[2]>> :
             n \in {0, 2, 3}, ok \in BOOLEAN \X {0, MaxUsers + 1}}

\* C15 (as claimed): add_user leaves as profile set either the set it found or
\* the complete stored table with the new profile in it.
C15_SetBeforeOrAfter ==
    \A e \in AddUserInputs :
        LET r == AddUserAt(e) IN
        r.known_users = known_users \/ r.known_users = r.db

\* a holds the first rows of b, in order
IsPrefix(a, b) == Len(a) <= Len(b) /\ a = SubSeq(b, 1, Len(a))

\* What a reload leaves of a table when it fails at failing_row: every row
\* when nothing fails, none when the query fails, the rows before the failing
\* one otherwise.
ReadBeforeFailure(table, failing_row, set) ==
    /\ IsPrefix(set, table)
    /\ Len(set) = IF failing_row > Len(table) THEN Len(table)
                  ELSE IF failing_row = 0 THEN 0
                  ELSE failing_row - 1

\* C15 (amended): the profile set a tick matches against is at all times the
\* first rows of the stored table, in table order; add_user replaces it in one
\* step, by the set it found (a failed enrollment), by the complete table with
\* the new profile (a successful one) or, when the reload after a successful
\* insert fails, by the rows the reload read before it failed, none when the
\* query failed; and add_user changes neither workflow state, blink counter,
\* timestamp, pending profile nor progress.
C15_AtomicEnrollment ==
    /\ [](/\ IsPrefix(known_users, db_users)
          /\ \A e \in AddUserInputs :
                LET r == AddUserAt(e) IN
                /\ ~r.success => r.known_users = known_users
                /\ r.success =>
                      /\ ReadBeforeFailure(r.db, e[6], r.known_users)
                      /\ r.db = Append(db_users, UserRow(e[4], e[1], e[3])))
    /\ [][ outcome'.op = "add_user" => session' = session ]_vars

\* A profile has been enrolled in the middle of a session; the next tick
\* matches against the two profiles.
C15_Witness ==
    /\ outcome.op = "add_user"
    /\ outcome.success
    /\ workflow_state = CHECKING_LIVENESS
    /\ blink_counter = 1
    /\ Len(known_users) = 2
    /\ known_users = db_users

\* C16: add_user on a frame with no face, or with more than one face, returns a
\* failure with the message of that case and changes neither the user table nor
\* the profile set; it succeeds only on a frame with exactly one face, and then
\* the table has one more row.
C16_FaceCountChecked ==
    \A e \in AddUserInputs :
        LET r == AddUserAt(e) IN
        /\ e[2] = 0 => (~r.success /\ r.text = "No face detected.")
        /\ e[2] > 1 => (~r.success /\ r.text = "Multiple faces detected.")
        /\ e[2] # 1 => (r.known_users = known_users /\ r.db = db_users)
        /\ r.success => (e[2] = 1 /\ Len(r.db) = Len(db_users) + 1)

\* add_user has just refused a frame with two faces, with a profile enrolled.
C16_Witness ==
    /\ outcome.op = "add_user"
    /\ ~outcome.success
    /\ outcome.status.text = "Multiple faces detected."
    /\ Len(db_users) = 1
    /\ known_users = db_users

\* C17 (as claimed): a load of the stored table that fails, at the query or at
\* any of the rows, returns the empty list.
C17_FailingLoadReturnsEmpty ==
    \A failing_row \in 0..Len(db_users) :
        LoadKnownUsers(db_users, failing_row) = <<>>

\* C17 (amended): a failing save makes add_user return (False, message) with
\* the profile set and the user table as they were; a load that fails returns
\* without raising the rows it read before the failure, the empty list when
\* the query fails; and the ticks issued afterwards return a status: on the
\* empty list every tick returns the 'no users enrolled' status, on the rows
\* that were read a tick raises only when the attendance sink fails, and a
\* failed save leaves the profile set the ticks work on as it was.
C17_PersistenceFailureAbsorbed ==
    /\ \A e \in AddUserInputs :
          (e[2] = 1 /\ ~e[5]) =>
              LET r == AddUserAt(e) IN
              /\ ~r.success
              /\ r.text = "Enrollment failed: {e}"
              /\ r.known_users = known_users
              /\ r.db = db_users
    /\ \A failing_row \in FailingRows :
          ReadBeforeFailure(db_users, failing_row,
                            LoadKnownUsers(db_users, failing_row))
    /\ \A loaded \in {LoadKnownUsers(db_users, failing_row) :
                           failing_row \in FailingRows \ {MaxUsers + 1}} :
          \A frame \in Frames, sink_ok \in BOOLEAN :
              LET r == RunAttendanceCheck(CurrentSession, loaded, frame, now,
                                          csv_rows, sink_ok)
              IN  /\ r.raised => r.sink = "failed"
                  /\ loaded = <<>> =>
                         (~r.raised /\ r.status = NoUsersStatus)

\* A save has just failed in the middle of a session, with a profile pending.
C17_Witness ==
    /\ outcome.op = "add_user"
    /\ ~outcome.success
    /\ outcome.status.text = "Enrollment failed: {e}"
    /\ workflow_state = CHECKING_LIVENESS
    /\ pending_verification_user = known_users[1]
    /\ Len(known_users) = 1
    /\ Len(db_users) = 1

\* The valid bits of a template.
ValidBits(t) == Cardinality({i \in Bits : t.mask[i]})

\* At shift s the two templates have at least 50 jointly valid bits and agree
\* on all of them.
AgreesAt(t1, t2, s) ==
    LET hd == HammingAt(t1, t2, s) IN hd.den >= 50 /\ hd.num = 0

\* The result is distance 0.0 at the first shift, in the order -8..8, at which
\* the templates agree.
ZeroAtFirstAgreeingShift(t1, t2, result) ==
    /\ result.hd.num = 0
    /\ result.hd.den >= 50
    /\ AgreesAt(t1, t2, result.shift)
    /\ \A s \in Shifts : s < result.shift => ~AgreesAt(t1, t2, s)

\* C18 (as claimed): a template compared with an identical copy of itself gives
\* distance 0.0 and best shift 0, whatever the template.
C18_SelfMatchAtShiftZero ==
    (iris.done /\ iris.t1 = iris.t2) =>
        /\ iris.result.hd.num = 0
        /\ iris.result.shift = 0

\* C18 (amended): a template with at least 50 valid bits compared with an
\* identical copy of itself gives distance 0.0, at the first shift in -8..8 at
\* which it agrees with its shifted self on at least 50 jointly valid bits:
\* shift 0 unless a negative shift does so already; a template with fewer than
\* 50 valid bits gives (1.0, 0).
C18_SelfMatch ==
    (iris.done /\ iris.t1 = iris.t2) =>
        IF ValidBits(iris.t1) >= 50
        THEN /\ ZeroAtFirstAgreeingShift(iris.t1, iris.t2, iris.result)
             /\ iris.result.shift <= 0
             /\ (\A s \in Shifts : s < 0 => ~AgreesAt(iris.t1, iris.t2, s))
                    => iris.result.shift = 0
        ELSE iris.result = IrisResult(One, 0)

\* The step code under the full mask has been compared with itself: 0.0 at 0.
C18_Witness ==
    /\ iris.done
    /\ iris.t1 = IrisTemplate(StepCode, AllValid)
    /\ iris.t2 = iris.t1
    /\ iris.result.hd.num = 0
    /\ iris.result.shift = 0

\* C19 (as claimed): a template compared with the copy of itself shifted by d,
\* |d| <= 8, gives distance 0.0 and the shift -d that moves the copy back,
\* whatever the template.
C19_ShiftedCopyRealigned ==
    \A d \in Shifts :
        (iris.done /\ iris.t2 = ShiftedCopy(iris.t1, d)) =>
            /\ iris.result.hd.num = 0
            /\ iris.result.shift = 0 - d

\* C19 (amended): a template with at least 50 valid bits compared with the copy
\* of itself whose code and mask are shifted by d, |d| <= 8, the two masks
\* sharing a valid bit as they stand, gives distance 0.0 at the first shift in
\* -8..8 at which the two agree on at least 50 jointly valid bits: the shift -d
\* that moves the copy back, unless a shift before it does so already; a
\* template with fewer than 50 valid bits, or whose mask shares no bit with its
\* shifted copy, gives (1.0, 0).
C19_ShiftedCopy ==
    \A d \in Shifts :
        (iris.done /\ iris.t2 = ShiftedCopy(iris.t1, d)) =>
            IF /\ ValidBits(iris.t1) >= 50
               /\ \E i \in Bits : iris.t1.mask[i] /\ iris.t2.mask[i]
            THEN /\ ZeroAtFirstAgreeingShift(iris.t1, iris.t2, iris.result)
                 /\ iris.result.shift <= 0 - d
                 /\ (\A s \in Shifts : s < 0 - d => ~AgreesAt(iris.t1, iris.t2, s))
                        => iris.result.shift = 0 - d
            ELSE iris.result = IrisResult(One, 0)

\* The step code, 60 bits valid, has been compared with its copy shifted by 5:
\* 0.0 at shift -5.
C19_Witness ==
    /\ iris.done
    /\ iris.t1 = IrisTemplate(StepCode, FirstValid(60))
    /\ iris.t2 = ShiftedCopy(iris.t1, 5)
    /\ iris.t2 # iris.t1
    /\ iris.result.hd.num = 0
    /\ iris.result.shift = -5

\* The pair has too few trustworthy bits: a mask is all-invalid, or the masks
\* share no valid bit as they stand, or no shift leaves 50 jointly valid bits.
Starved(t1, t2) ==
    \/ \A i \in Bits : ~t1.mask[i]
    \/ \A i \in Bits : ~t2.mask[i]
    \/ \A i \in Bits : ~(t1.mask[i] /\ t2.mask[i])
    \/ \A s \in Shifts :
          Cardinality({i \in Bits : t1.mask[i] /\ Roll(t2.mask, s)[i]}) < 50

\* C20: a pair with too few trustworthy bits compares as exactly (1.0, 0), and
\* is_match of that distance at threshold 0.35 is false; is_match(d, threshold)
\* is true exactly when d <= threshold.
C20_StarvedIsNonMatch ==
    /\ iris.done =>
          (Starved(iris.t1, iris.t2) =>
              /\ iris.result = IrisResult(One, 0)
              /\ ~IsMatch(iris.result.hd, 35))
    /\ iris.decided =>
          (iris.match <=>
              100 * iris.result.hd.num <= iris.threshold * iris.result.hd.den)
    /\ \A k \in 0..100, threshold_pct \in Thresholds :
          IsMatch([num |-> k, den |-> 100], threshold_pct) <=> k <= threshold_pct

\* Masks that share no bit as they stand, though one shift would leave 50, have
\* been compared and the distance refused at threshold 0.35.
C20_Witness ==
    /\ iris.decided
    /\ iris.t1.mask = EvenValid
    /\ iris.t2.mask = OddValid
    /\ iris.t1.code = StepCode
    /\ iris.t2.code = StepCode
    /\ HammingAt(iris.t1, iris.t2, 1).den >= 50
    /\ iris.result = IrisResult(One, 0)
    /\ iris.threshold = 35
    /\ ~iris.match

(***************************************************************************)
(* The matcher's result against the definition of the distance: position j *)
(* of the second template, moved s places round the circle, meets position *)
(* Dest(j, s) of the first.                                                *)
(***************************************************************************)
Dest(j, s) == ((j - 1 + s) % CodeBits) + 1
JointlyValid(t1, t2, s) == {j \in Bits : t2.mask[j] /\ t1.mask[Dest(j, s)]}
Disagreeing(t1, t2, s) ==
    {j \in JointlyValid(t1, t2, s) : t2.code[j] # t1.code[Dest(j, s)]}
EvaluatedShifts(t1, t2) ==
    {s \in Shifts : Cardinality(JointlyValid(t1, t2, s)) >= MIN_VALID_BITS}
\* the distance hd is the ratio at shift s
RatioIs(hd, t1, t2, s) ==
    hd.num * Cardinality(JointlyValid(t1, t2, s))
        = Cardinality(Disagreeing(t1, t2, s)) * hd.den
\* the distance hd is no more than the ratio at shift s
RatioAtLeast(hd, t1, t2, s) ==
    hd.num * Cardinality(JointlyValid(t1, t2, s))
        <= Cardinality(Disagreeing(t1, t2, s)) * hd.den
Comparable(c) ==
    /\ c.done
    /\ Len(c.t1.code) = CodeBits /\ Len(c.t1.mask) = CodeBits
    /\ JointlyValid(c.t1, c.t2, 0) # {}
    /\ EvaluatedShifts(c.t1, c.t2) # {}

\* C21 as stated: when the masks share a valid position and some shift has 50
\* jointly valid bits, the shift returned is one that was evaluated and the
\* distance returned is the ratio of disagreeing to jointly valid bits there.
C21_ShiftWasEvaluated ==
    Comparable(iris) =>
        /\ iris.result.shift \in EvaluatedShifts(iris.t1, iris.t2)
        /\ RatioIs(iris.result.hd, iris.t1, iris.t2, iris.result.shift)

\* C21: when the masks share a valid position and some shift in -8..8 has at
\* least 50 jointly valid bits, the distance returned is the minimum over those
\* shifts of disagreeing bits over jointly valid bits, and lies in [0, 1]; when
\* that minimum is below 1.0 the shift returned is the first evaluated shift
\* that attains it, and when every evaluated shift disagrees on every bit the
\* shift returned is 0, evaluated or not.
C21_MinimumOverShifts ==
    Comparable(iris) =>
        LET t1 == iris.t1
            t2 == iris.t2
            hd == iris.result.hd
            shift == iris.result.shift
        IN  /\ 0 <= hd.num /\ hd.num <= hd.den /\ hd.den > 0
            /\ \A s \in EvaluatedShifts(t1, t2) : RatioAtLeast(hd, t1, t2, s)
            /\ \E s \in EvaluatedShifts(t1, t2) : RatioIs(hd, t1, t2, s)
            /\ IF hd.num < hd.den
               THEN /\ shift \in EvaluatedShifts(t1, t2)
                    /\ RatioIs(hd, t1, t2, shift)
                    /\ \A s \in EvaluatedShifts(t1, t2) :
                           s < shift => ~RatioIs(hd, t1, t2, s)
               ELSE shift = 0

\* A comparison whose minimum is below 1.0 and is attained at a shift other
\* than 0, shift 0 itself lacking 50 jointly valid bits.
C21_Witness ==
    /\ Comparable(iris)
    /\ iris.result.hd.num < iris.result.hd.den
    /\ iris.result.shift # 0
    /\ 0 \notin EvaluatedShifts(iris.t1, iris.t2)
    /\ Cardinality(EvaluatedShifts(iris.t1, iris.t2)) > 1

(***************************************************************************)
(* The encoder's layout: plane k of pixel (r, c) of a rows x cols strip.   *)
(***************************************************************************)
FlatIndex(r, c, k, cols) == ((r - 1) * cols + (c - 1)) * BANK_SIZE + k
EncodedFrom(t, src) ==
    LET rows == Len(src.mask2d)
        cols == Len(src.mask2d[1])
    IN  /\ Len(t.code) = rows * cols * BANK_SIZE
        /\ Len(t.mask) = rows * cols * BANK_SIZE
        /\ \A r \in 1..rows : \A c \in 1..cols : \A k \in 1..BANK_SIZE :
               /\ t.mask[FlatIndex(r, c, k, cols)] = src.mask2d[r][c]
               /\ t.code[FlatIndex(r, c, k, cols)] = src.feats[k][r][c]
AllLengthsAgree(t1, t2) ==
    /\ Len(t1.code) = Len(t1.mask)
    /\ Len(t2.code) = Len(t2.mask)
    /\ Len(t1.code) = Len(t2.code)

\* C22: a template made by create_iris_code has a code and a mask of length
\* rows x cols x K, the same for every strip of that size, the mask bit of a
\* pixel is the same in all K planes, and compare_iris_codes returns a result
\* only for two templates whose code and mask lengths all agree: on templates
\* of strips of different sizes it raises AssertionError.
C22_TemplateShape ==
    /\ iris.built >= 1 => EncodedFrom(iris.t1, iris.src[1])
    /\ iris.built = 2 => EncodedFrom(iris.t2, iris.src[2])
    /\ iris.encoded <=> iris.built = 2
    /\ iris.done => AllLengthsAgree(iris.t1, iris.t2)
    /\ (iris.encoded /\ ~iris.done /\ iris.error = "") =>
           (CompareCall(iris.t1, iris.t2).error = ""
                => AllLengthsAgree(iris.t1, iris.t2))
    /\ (iris.encoded /\ ~AllLengthsAgree(iris.t1, iris.t2)) =>
           iris.error \in {"", "AssertionError"}

\* Two strips of the largest size were encoded and the templates compared on
\* at least 50 jointly valid bits.
C22_Witness ==
    /\ iris.src # <<>>
    /\ iris.done
    /\ Len(iris.t1.code) = MaxRows * MaxCols * BANK_SIZE
    /\ iris.t1 # iris.t2
    /\ iris.result.hd.den >= MIN_VALID_BITS

(***************************************************************************)
(* The eye aspect ratio against its definition.  d2(p, q) is the squared   *)
(* distance of two points; MaxDistance bounds the distances of the eyes of *)
(* the model.                                                              *)
(***************************************************************************)
D2(p, q) == (p[1] - q[1]) * (p[1] - q[1]) + (p[2] - q[2]) * (p[2] - q[2])
Distances == 0..50
EarIsRatio(e, eye) ==
    \E A \in Distances : A * A = D2(eye[2], eye[6]) /\
    \E B \in Distances : B * B = D2(eye[3], eye[5]) /\
    \E C \in Distances : C * C = D2(eye[1], eye[4]) /\
        IF C = 0 THEN e.num = 0 ELSE e.num * 2 * C = (A + B) * e.den
\* the two ratios average below 0.21: their sum is below 0.42
AverageBelow(l, r) == 50 * (l.num * r.den + r.num * l.den) < 21 * l.den * r.den

\* C23: _compute_ear returns 0.0 for an eye whose points p0 and p3 coincide and
\* (d(p1,p5) + d(p2,p4)) / (2 d(p0,p3)) otherwise, never a negative value and
\* never a fault; the detector counts a frame as closed exactly when the
\* average of the two eyes' ratios is below 0.21.
C23_EarGuarded ==
    /\ \A eye \in Eyes :
           LET e == ComputeEar(eye) IN
           /\ e.den > 0 /\ e.num >= 0
           /\ EarIsRatio(e, eye)
           /\ eye[1] = eye[4] => e.num = 0
    /\ (Len(blink_trace) > 0 /\ ears # <<>>) =>
           LET last == blink_trace[Len(blink_trace)]
               before == TraceCounterBefore(Len(blink_trace))
           IN  /\ \A i \in 1..2 : ears[i].den > 0 /\ ears[i].num >= 0
               /\ IF AverageBelow(ears[1], ears[2])
                  THEN last.blink_counter = before + 1 /\ ~last.live
                  ELSE last.blink_counter = 0
    /\ (Len(blink_trace) > 0 /\ ears = <<>>) =>
           /\ blink_trace[Len(blink_trace)].kind = "absent"
           /\ ~blink_trace[Len(blink_trace)].live

\* Two closed frames and an open one that ends the blink, then a frame whose
\* eyes have zero width: its ratios are 0.0 and it counts as closed.
C23_Witness ==
    /\ Len(blink_trace) = 4
    /\ blink_trace[3].live
    /\ blink_trace[4].blink_counter = 1
    /\ ears = <<[num |-> 0, den |-> 1], [num |-> 0, den |-> 1]>>
    /\ ComputeEar(FlatEye) = ears[1]
    /\ FlatEye[1] = FlatEye[4]

\* C24: enrollment only appends.  The stored profiles have pairwise distinct
\* identifiers; a call of add_user leaves every stored row in place, adds
\* exactly one row when it succeeds, with the name and embedding given and an
\* identifier no stored row has, and adds nothing when it fails; a name that is
\* already stored gets a second profile beside the first.
C24_AppendOnly ==
    /\ \A i \in 1..Len(db_users) : \A j \in 1..Len(db_users) :
           db_users[i].user_id = db_users[j].user_id => i = j
    /\ \A e \in AddUserInputs :
           LET r == AddUserAt(e) IN
           /\ Len(r.db) >= Len(db_users)
           /\ \A i \in 1..Len(db_users) : r.db[i] = db_users[i]
           /\ IF r.success
              THEN /\ Len(r.db) = Len(db_users) + 1
                   /\ r.db[Len(r.db)] = UserRow(e[4], e[1], e[3])
                   /\ \A i \in 1..Len(db_users) : db_users[i].user_id # e[4]
              ELSE r.db = db_users

\* The same name was enrolled a second time: the table holds two profiles of
\* that name under different identifiers.
C24_Witness ==
    /\ outcome.op = "add_user"
    /\ outcome.success
    /\ Len(db_users) = 2
    /\ db_users[1].name = db_users[2].name
    /\ db_users[1].user_id # db_users[2].user_id

\* C25: a session does not stay in CHECKING_LIVENESS past its deadline, nor in
\* VERIFYING past the dwell: the first tick issued more than 10 seconds after
\* CHECKING_LIVENESS was entered leaves it, to VERIFYING or to WAITING_FOR_FACE,
\* and a tick issued more than 5 seconds after VERIFYING was entered reaches
\* FINAL_SUCCESS, whatever enrollments ran in between.
C25_LeavesByDeadline ==
    \A frame \in Frames, sink_ok \in BOOLEAN :
        LET r == TickAt(frame, sink_ok) IN
        /\ (workflow_state = CHECKING_LIVENESS /\ Elapsed > LIVENESS_TIMEOUT) =>
               r.s.workflow_state \in {VERIFYING, WAITING_FOR_FACE}
        /\ (workflow_state = VERIFYING /\ Elapsed > VERIFICATION_DURATION) =>
               r.s.workflow_state = FINAL_SUCCESS

\* In FINAL_SUCCESS a tick changes nothing and a window shows the success
\* dialog; after the dialog the session is reset.
FinalSuccessHeld ==
    /\ workflow_state = FINAL_SUCCESS =>
           /\ pending_verification_user # NoUser
           /\ acknowledging >= 1
           /\ \A frame \in Frames, sink_ok \in BOOLEAN :
                  LET r == TickAt(frame, sink_ok) IN
                  /\ ~r.raised
                  /\ r.s.workflow_state = FINAL_SUCCESS
                  /\ r.s.pending_verification_user = pending_verification_user
                  /\ r.csv = csv_rows
    /\ outcome.op = "acknowledge" =>
           /\ workflow_state = WAITING_FOR_FACE
           /\ pending_verification_user = NoUser
\* An update_video step that ends in FINAL_SUCCESS takes its loop from the live
\* ones to the dialog.
ObserverStops ==
    ( /\ outcome'.op = "update_video"
      /\ now' = now
      /\ vars' # vars
      /\ workflow_state' = FINAL_SUCCESS )
    => ( /\ running' = running - 1
         /\ acknowledging' = acknowledging + 1 )

\* C26: FINAL_SUCCESS is left only through the driver.  A tick issued in
\* FINAL_SUCCESS does not raise and leaves the state and the pending profile as
\* they are; whenever the session is in FINAL_SUCCESS a window is showing the
\* success dialog, its loop stopped; the tick on which a loop sees
\* FINAL_SUCCESS takes that loop out of the live ones, so it issues no further
\* tick; and when the dialog is dismissed reset_workflow has put the session in
\* WAITING_FOR_FACE with no pending profile.
C26_FinalSuccessResetsThroughDriver ==
    []FinalSuccessHeld /\ [][ObserverStops]_vars

\* The success dialog of the only window was dismissed: attendance is recorded,
\* no loop is live and the session is back in WAITING_FOR_FACE.
C26_Witness ==
    /\ outcome.op = "acknowledge"
    /\ Len(csv_rows) = 2
    /\ running = 0
    /\ acknowledging = 0
    /\ workflow_state = WAITING_FOR_FACE
    /\ pending_verification_user = NoUser

\* C27: a profile is pending exactly when the workflow state is not
\* WAITING_FOR_FACE.  No tick raises for want of a pending profile to name (the
\* only raise is a failed attendance sink), the statuses of CHECKING_LIVENESS
\* and FINAL_SUCCESS carry the pending profile's name, and a tick issued outside
\* WAITING_FOR_FACE either keeps the pending profile or resets the session to
\* WAITING_FOR_FACE with none.
C27_PendingIffNotWaiting ==
    /\ (pending_verification_user # NoUser) <=> (workflow_state # WAITING_FOR_FACE)
    /\ \A frame \in Frames, sink_ok \in BOOLEAN :
           LET r == TickAt(frame, sink_ok) IN
           /\ r.raised => r.sink = "failed"
           /\ (r.s.pending_verification_user # NoUser)
                  <=> (r.s.workflow_state # WAITING_FOR_FACE)
           /\ ( /\ workflow_state \in {CHECKING_LIVENESS, FINAL_SUCCESS}
                /\ Len(known_users) > 0
                /\ ~r.raised )
                  => r.status.name = pending_verification_user.name
           /\ workflow_state # WAITING_FOR_FACE =>
                  \/ r.s.pending_verification_user = pending_verification_user
                  \/ /\ workflow_state = CHECKING_LIVENESS
                     /\ r.s = ResetWorkflow(now)

\* A tick in FINAL_SUCCESS has named the profile that has been pending since it
\* was matched.
C27_Witness ==
    /\ workflow_state = FINAL_SUCCESS
    /\ outcome.op = "tick"
    /\ outcome.status.text = "Attendance Marked for {name}"
    /\ outcome.status.name = pending_verification_user.name
    /\ pending_verification_user \in Rows(db_users)

\* C28: the blink counter is 0 whenever the workflow state is not
\* CHECKING_LIVENESS, now and after any tick: closed-eye frames are counted only
\* in CHECKING_LIVENESS, and the counter is back at 0 when that state is left,
\* by a confirmed blink or by the timeout.
C28_CounterZeroOutsideChecking ==
    /\ workflow_state # CHECKING_LIVENESS => blink_counter = 0
    /\ \A frame \in Frames, sink_ok \in BOOLEAN :
           LET r == TickAt(frame, sink_ok) IN
           /\ r.s.workflow_state # CHECKING_LIVENESS => r.s.blink_counter = 0
           /\ workflow_state # CHECKING_LIVENESS =>
                  r.s.blink_counter = blink_counter

\* The blink has just been confirmed and logged: VERIFYING, the counter at 0,
\* and closed-eye frames fed now would not be counted.
C28_Witness ==
    /\ workflow_state = VERIFYING
    /\ outcome.op = "tick"
    /\ outcome.sink = "ok"
    /\ blink_counter = 0
    /\ \E frame \in Frames :
           /\ FrameKind(frame.landmarks) = "closed"
           /\ TickAt(frame, TRUE).s.blink_counter = 0

\* C29: attendance is recorded for the pending profile only on a frame whose
\* face matches that profile: whenever a tick in CHECKING_LIVENESS records
\* attendance, the face whose open eyes completed the blink is located in the
\* frame and lies within the tolerance 0.6 of the pending profile.
C29_BlinkerMatchesPending ==
    workflow_state = CHECKING_LIVENESS =>
        \A frame \in Frames, sink_ok \in BOOLEAN :
            LET r == TickAt(frame, sink_ok) IN
            (r.sink = "ok" /\ r.csv # csv_rows) =>
                /\ frame.locations > 0
                /\ WithinTolerance(
                       FaceDistanceSq(pending_verification_user.embedding,
                                      frame.embedding))

\* C30 as stated: whatever add_user returns, the profile set it leaves equals
\* the stored user table.
C30_SetEqualsTable ==
    \A e \in AddUserInputs :
        LET r == AddUserAt(e) IN r.known_users = r.db

\* C30: the profile set differs from the stored table only by lacking its
\* last rows.  A call of add_user that succeeds and reloads the whole table
\* leaves the set equal to the table, the new profile and every earlier one in
\* it; one that succeeds but whose reload fails leaves the rows read before
\* the failure, none when the query failed, and never the new row although the
\* table has it; one that fails leaves set and table as they were, equal only
\* if they were.
C30_SetFollowsTable ==
    /\ known_users # db_users =>
           (Len(known_users) < Len(db_users) /\ IsPrefix(known_users, db_users))
    /\ \A e \in AddUserInputs :
           LET r == AddUserAt(e) IN
           IF r.success /\ e[6] > Len(r.db)
           THEN /\ r.known_users = r.db
                /\ UserRow(e[4], e[1], e[3]) \in Rows(r.known_users)
                /\ Rows(db_users) \subseteq Rows(r.known_users)
           ELSE IF r.success
           THEN /\ r.known_users = SubSeq(r.db, 1, Len(r.known_users))
                /\ Len(r.known_users) = (IF e[6] = 0 THEN 0 ELSE e[6] - 1)
                /\ UserRow(e[4], e[1], e[3]) \in Rows(r.db)
                /\ UserRow(e[4], e[1], e[3]) \notin Rows(r.known_users)
           ELSE /\ r.known_users = known_users
                /\ r.db = db_users

\* A second profile has been enrolled while no session was under way: both
\* profiles are in the table and in the profile set.
C30_Witness ==
    /\ outcome.op = "add_user"
    /\ outcome.success
    /\ workflow_state = WAITING_FOR_FACE
    /\ Len(db_users) = 2
    /\ known_users = db_users

\* two distances are the same number
SameDistance(a, b) == a.num * b.den = b.num * a.den
\* a comparison step leaves both templates as they were
TemplatesKept == iris'.t1 = iris.t1 /\ iris'.t2 = iris.t2
SymmetricResult ==
    (iris.done /\ Len(iris.t1.code) = Len(iris.t1.mask)) =>
        LET back == CompareIrisCodes(iris.t2, iris.t1) IN
        /\ SameDistance(back.hd, iris.result.hd)
        /\ \A threshold_pct \in Thresholds :
               IsMatch(back.hd, threshold_pct)
                   <=> IsMatch(iris.result.hd, threshold_pct)
        /\ iris.decided => (iris.match <=> IsMatch(back.hd, iris.threshold))

\* C31: compare_iris_codes(t1, t2) and compare_iris_codes(t2, t1) return the
\* same distance, hence the same decision of is_match at every threshold, and a
\* call leaves the code and the mask of both templates as they were.
C31_SymmetricDistance ==
    []SymmetricResult /\ [][TemplatesKept]_vars

\* Two different templates were compared and matched at a shift other than 0;
\* compared the other way round the best shift is the opposite one.
C31_Witness ==
    /\ iris.done
    /\ iris.decided
    /\ iris.t1 # iris.t2
    /\ iris.result.shift = 0 - ROTATIONS
    /\ iris.result.hd.num = 0
    /\ CompareIrisCodes(iris.t2, iris.t1).shift = ROTATIONS

(***************************************************************************)
(* Where a flat position of an encoded template lies in the strip: element *)
(* (r, c, k) is at (r * W + c) * K + k, counting from 0.                   *)
(***************************************************************************)
PlaneOf(n) == (n - 1) % BANK_SIZE
ColumnOf(n, cols) == ((n - 1) \div BANK_SIZE) % cols
RowOf(n, cols) == (n - 1) \div (BANK_SIZE * cols)
\* the position of template 2 whose bit meets position n of template 1 at
\* shift s
MeetsAt(n, s, len) == Roll([i \in 1..len |-> i], s)[n]

\* C32: each shift rotates the strip.  For two templates encoded from strips of
\* one size and every shift s in -8..8, the bit of template 1 at row r, column
\* c, plane k is compared with a bit of template 2 of the same row and the same
\* plane.
C32_ShiftIsRotation ==
    ( /\ iris.src # <<>>
      /\ iris.encoded
      /\ ShapesAgree(iris.t1, iris.t2) ) =>
        LET cols == Len(iris.src[1].mask2d[1])
            len == Len(iris.t1.code)
        IN  \A s \in Shifts : \A n \in 1..len :
                LET m == IF s = 0 THEN n ELSE MeetsAt(n, s, len) IN
                /\ RowOf(m, cols) = RowOf(n, cols)
                /\ PlaneOf(m) = PlaneOf(n)

\* C33: in the enrollment window at most one countdown is in flight, a click
\* during a running countdown starts nothing, every accepted click leads to
\* exactly one call of add_user, and add_user is never called with an empty
\* name.
C33_CountdownDiscipline ==
    /\ enrollment.timers <= 1
    /\ enrollment.countdown_running <=> enrollment.timers = 1
    /\ Len(enrollment.calls) =
           IF enrollment.countdown_running THEN enrollment.accepted - 1
           ELSE enrollment.accepted
    /\ \A i \in 1..Len(enrollment.calls) : enrollment.calls[i] # ""

\* C35: after n calls of log_attendance on a file that was absent or empty, the
\* file is the header row followed by one row per call, in call order, row i
\* carrying serial number i and the identifier and name of the profile of call
\* i: the serial numbers are 1, 2, ..., n.
C35_SerialNumbers ==
    Len(logged) > 0 =>
        /\ Len(csv_rows) = Len(logged) + 1
        /\ csv_rows[1] = HeaderRow
        /\ \A i \in 1..Len(logged) :
               /\ csv_rows[i + 1].sr = i
               /\ csv_rows[i + 1].user_id = logged[i].user_id
               /\ csv_rows[i + 1].name = logged[i].name
               /\ csv_rows[i + 1].status = "Present"

\* Four calls were made, for two profiles in turn: the rows are numbered 1 to 4.
C35_Witness ==
    /\ Len(logged) = 4
    /\ logged[1] # logged[2]
    /\ logged[3] = logged[1]
    /\ csv_rows[5].sr = 4
    /\ csv_rows[5].user_id = logged[4].user_id

====
